---- MODULE Spec2Model ----
(***************************************************************************)
(* RAG_Evaluation_LegalBench-RAG.ipynb as a state machine.                 *)
(*                                                                         *)
(* The notebook is a sequence of cells run top to bottom; an exception     *)
(* raised in a cell stops the run.  Its parts are modelled each with its   *)
(* own specification over the same variables:                              *)
(*   SpecBuild  corpus loader, chunking and vector store build             *)
(*              (cells 0c1c1514 .. de995734)                               *)
(*   SpecRebuild the build loop failing and being executed again           *)
(*   SpecChunk  the text splitter on documents of any text                 *)
(*   SpecLoad   the QA loader (cell 2c141b27)                              *)
(*   SpecSample the sampling cell with the random generator followed       *)
(*   SpecDraw   the sampling cell with a sample smaller than the range     *)
(*   Spec       sampling, the RAG loop, the checkpoint, its reload and the *)
(*              RAGChecker formatter (cells 571939b6 .. d02c55fc)          *)
(*   SpecLoop   sampling and the RAG loop, with the kernel's progress      *)
(*   SpecFiles  the same cells up to the RAGAs reload, with connections    *)
(*              and file handles followed                                  *)
(*   SpecRagas  the RAGAs environment: reload of the checkpoint and the    *)
(*              scoring loop (cells 1e94e649, c0c40b3f)                    *)
(*   SpecWrite  the two cells that write the framework results file        *)
(* Text is a sequence of one-character strings, so that concatenation,     *)
(* str() and the JSON encoding are computed and not assumed.               *)
(***************************************************************************)
EXTENDS Integers, Sequences, FiniteSets, TLC

VARIABLES
    pc,                   \* the cell (or the cell's part) to run next
    error,                \* the exception that stopped the run, or "none"
    \* --- corpus loader, chunking and index build, cells 0c1c1514 .. de995734
    listing,              \* input: os.listdir(folder) of each directory, as
                          \* a sequence of files [name, content]
    folder_i,             \* position in `directories` of `folder`
    file_i,               \* position in os.listdir(folder) of `file`
    legalbench_rag_retrieval_docs,
    legalbench_rag_chunks,
    batch_i,              \* `i` of the build loop
    vector_index,         \* the rows of table LegalBench_RAG
    upserts,              \* history: the keyword arguments of each add_texts call
    rebuilds,             \* history: how often the build cell was executed again
    run_start,            \* history: the rows the table held when the build loop began
    \* --- QA loader, cell 2c141b27
    b,                    \* position in `benchmarks` of the file being read
    file_open,            \* inside the `with open(benchmark)` block
    data,                 \* data["tests"] of the open file
    e,                    \* position in data["tests"] of the next example
    query_id,             \* the counter
    legalbench_rag_qa,    \* the QA records
    tests_read,           \* history: every test entry read, in input order
    \* --- sampling, cell 571939b6
    sampled_indices,
    available_indices,
    legalbench_rag_subset,
    rng,                  \* the state of the generator behind module `random`
    samples,              \* history: what each execution of the cell sampled
    \* --- RAG loop, cell e63f6423
    loop_i,               \* position in legalbench_rag_subset of `qa`
    step,                 \* the statement of the loop body to run next
    retrieved_chunks,
    retrieved_context,
    response,
    results,
    calls,                \* history: the external calls the loop has issued
    exchanges,            \* history: argument and value of every call that returned
    \* --- checkpoint and formatter, cells 7f250627 .. d02c55fc
    serializable_results,
    results_file,         \* legalbench_rag_results.json: its text, or NoFile
    json_results,
    ragchecker_results,
    ragchecker_file,      \* legalbench_rag_ragchecker.json: its text, or NoFile
    \* --- RAGAs loop, cell c0c40b3f
    ragas_i,              \* position in json_results of `rag_result`
    ragas_step,           \* the statement of the loop body to run next
    sample,               \* the SingleTurnSample of the current record
    metrics,              \* metric name -> running total, a fraction <<num, den>>
    scores,               \* history: the scores returned, one record per instance
    augend,               \* metrics[label] as read by `+=` before the await
    outstanding,          \* the scoring calls issued and not yet returned
    \* --- the framework results file, cells 3ac6ff37 and 23345235
    rag_results,          \* str(rag_results), the RAGChecker metrics as printed
    framework_results_file, \* legalbench_rag_framework_results.txt: its text, or NoFile
    blocks_written,       \* history: every block written to that file, in order
    \* --- open connections and file handles
    connections,          \* the open connections to legalbench_rag.db, oldest first
    store_connection,     \* the connection of the store bound to legalbench_rag_vector_store
    handles,              \* the open handles on the JSON files, oldest first
    accesses              \* history: every open and close of a JSON file

vars == <<pc, error, listing, folder_i, file_i, legalbench_rag_retrieval_docs,
          legalbench_rag_chunks, batch_i, vector_index, upserts, rebuilds, run_start,
          b, file_open, data, e, query_id, legalbench_rag_qa, tests_read,
          sampled_indices, available_indices, legalbench_rag_subset,
          loop_i, step, retrieved_chunks, retrieved_context, response, results, calls,
          exchanges,
          serializable_results, results_file, json_results, ragchecker_results,
          ragchecker_file, ragas_i, ragas_step, sample, metrics, scores, augend,
          outstanding,
          rag_results, framework_results_file, blocks_written, rng, samples,
          connections, store_connection, handles, accesses>>

corpusVars == <<listing, folder_i, file_i, legalbench_rag_retrieval_docs,
                legalbench_rag_chunks, batch_i, vector_index, upserts,
                rebuilds, run_start>>
loaderVars == <<b, file_open, data, e, query_id, legalbench_rag_qa, tests_read>>
samplingVars == <<sampled_indices, available_indices, legalbench_rag_subset>>
loopVars == <<loop_i, step, retrieved_chunks, retrieved_context, response, results,
              calls, exchanges>>
checkpointVars == <<serializable_results, results_file, json_results,
                    ragchecker_results, ragchecker_file>>
ragasVars == <<ragas_i, ragas_step, sample, metrics, scores, augend, outstanding>>
writeVars == <<rag_results, framework_results_file, blocks_written>>
rngVars == <<rng, samples>>
fileVars == <<connections, store_connection, handles, accesses>>

----------------------------------------------------------------------------
(* Bounds of the model *)

\* benchmark files in `benchmarks` (the notebook lists 4)
NumBenchmarks == 2
\* most test entries in one benchmark file
MaxTests == 2
\* size of the range the sample is drawn from (the notebook: 6889)
RangeSize == 2
\* number of sampled indices (the notebook: 100)
SampleSize == 2
\* range and sample of the sampling cell taken alone (6889 and 100), with
\* indices left over
DrawRange == 4
DrawSize == 2
\* most records in a checkpoint handed to the RAGAs loop
MaxResults == 2
\* directories in `directories` (the notebook lists 4)
NumDirs == 2
\* most entries in one directory
MaxFiles == 2
\* chunk_size of the text splitter, in characters (the notebook: 2000)
ChunkSize == 4
\* chunk_overlap of the text splitter (the notebook: 500)
ChunkOverlap == 1
\* most characters in a document handed to the text splitter on its own
MaxDocLen == 9
\* batch_size of the index build loop (the notebook: 1000)
BatchSize == 2

----------------------------------------------------------------------------
(* Text and sequences *)

RECURSIVE Concat(_)
\* the concatenation of a sequence of texts
Concat(ss) == IF ss = <<>> THEN <<>> ELSE Head(ss) \o Concat(Tail(ss))

\* the sequences over S of length at most n
SeqsUpTo(S, n) == UNION {[1..k -> S] : k \in 0..n}

\* the sequences of n pairwise distinct elements of S
DistinctSeqs(S, n) == {s \in [1..n -> S] : \A i, j \in 1..n : i # j => s[i] # s[j]}

\* the state of a file that does not exist
NoFile == <<"no file">>

Range(s) == {s[i] : i \in DOMAIN s}

Min(x, y) == IF x <= y THEN x ELSE y
Max(x, y) == IF x >= y THEN x ELSE y

----------------------------------------------------------------------------
(* The notebook: cells run top to bottom *)

\* a bug: the exception is swallowed and the loop goes on with the same query
PcOnException_Retry(cell) == cell

\* a bug: the run goes on with the next cell after an exception
PcOnException_NextCell(cell) == "checkpoint"

\* a bug: the exception is swallowed and the scoring cell counts as finished
PcOnException_CellDone(cell) == "ragas_done"

\* no try/except anywhere: an exception ends the cell and the run
PcOnException(cell) == "aborted"

----------------------------------------------------------------------------
(* Corpus loader, cell 0c1c1514 *)

\* the suffix the loader asks for
TxtSuffix == <<".", "t", "x", "t">>

\* s.endswith(suffix)
EndsWith(s, suffix) ==
    /\ Len(s) >= Len(suffix)
    /\ SubSeq(s, Len(s) - Len(suffix) + 1, Len(s)) = suffix

\* a text without separator, longer than two chunks
LongText == [k \in 1..(2 * ChunkSize + 2) |-> "a"]

\* the files a directory can hold: name and content
CorpusFiles ==
    { [name |-> <<"a", ".", "t", "x", "t">>, content |-> LongText],
      [name |-> <<"b", ".", "t", "x", "t">>, content |-> <<"a", " ", "b">>],
      [name |-> <<"e", ".", "t", "x", "t">>, content |-> <<>>],
      [name |-> <<"c", "t", "x", "t">>, content |-> <<"x">>] }

\* os.listdir(folder): at most MaxFiles entries with pairwise distinct names,
\* in the order the operating system gives them
Listings == UNION { DistinctSeqs(CorpusFiles, n) : n \in 0..MaxFiles }

\* directories[k]: the path of the k-th input directory
Directory(k) == <<"d", <<"1", "2", "3", "4">>[k], "/">>

\* a bug: every entry of the directory is read
IsTextFile_Any(file) == TRUE

\* if file.endswith(".txt")

IsTextFile(file) == EndsWith(file, TxtSuffix)

\* Document(page_content=f.read(), metadata={...})
Document(folder, file) ==
    [page_content |-> file.content,
     metadata |-> [source_dataset |-> folder, filename |-> file.name]]

\* a text file: one Document is appended
LoadFile ==
    /\ pc = "corpus"
    /\ folder_i <= NumDirs
    /\ file_i <= Len(listing[folder_i])
    /\ IsTextFile(listing[folder_i][file_i].name)
    /\ legalbench_rag_retrieval_docs' =
           Append(legalbench_rag_retrieval_docs,
                  Document(Directory(folder_i), listing[folder_i][file_i]))
    /\ file_i' = file_i + 1
    /\ UNCHANGED <<pc, error, listing, folder_i, legalbench_rag_chunks, batch_i,
                   vector_index, upserts,
                   rebuilds, run_start>>
    /\ UNCHANGED <<loaderVars, samplingVars, loopVars, checkpointVars, ragasVars,
                   writeVars, rngVars, fileVars>>

\* any other entry is passed over
SkipFile ==
    /\ pc = "corpus"
    /\ folder_i <= NumDirs
    /\ file_i <= Len(listing[folder_i])
    /\ ~IsTextFile(listing[folder_i][file_i].name)
    /\ file_i' = file_i + 1
    /\ UNCHANGED <<pc, error, listing, folder_i, legalbench_rag_retrieval_docs,
                   legalbench_rag_chunks, batch_i, vector_index, upserts,
                   rebuilds, run_start>>
    /\ UNCHANGED <<loaderVars, samplingVars, loopVars, checkpointVars, ragasVars,
                   writeVars, rngVars, fileVars>>

\* os.listdir(folder) is exhausted: the next folder
NextFolder ==
    /\ pc = "corpus"
    /\ folder_i <= NumDirs
    /\ file_i > Len(listing[folder_i])
    /\ folder_i' = folder_i + 1
    /\ file_i' = 1
    /\ UNCHANGED <<pc, error, listing, legalbench_rag_retrieval_docs,
                   legalbench_rag_chunks, batch_i, vector_index, upserts,
                   rebuilds, run_start>>
    /\ UNCHANGED <<loaderVars, samplingVars, loopVars, checkpointVars, ragasVars,
                   writeVars, rngVars, fileVars>>

\* `directories` is exhausted: the cell prints the count and ends
FinishCorpus ==
    /\ pc = "corpus"
    /\ folder_i > NumDirs
    /\ pc' = "chunking"
    /\ UNCHANGED <<error, listing, folder_i, file_i, legalbench_rag_retrieval_docs,
                   legalbench_rag_chunks, batch_i, vector_index, upserts,
                   rebuilds, run_start>>
    /\ UNCHANGED <<loaderVars, samplingVars, loopVars, checkpointVars, ragasVars,
                   writeVars, rngVars, fileVars>>


----------------------------------------------------------------------------
(* Chunking, cell d54d8a6b:                                                *)
(*   RecursiveCharacterTextSplitter(chunk_size, chunk_overlap,             *)
(*                                  add_start_index=True).split_documents  *)
(* with the splitter's defaults: separators ["\n\n", "\n", " ", ""],       *)
(* keep_separator=True, strip_whitespace=True, length_function=len         *)

Separators == << <<"\n", "\n">>, <<"\n">>, <<" ">>, <<>> >>

\* the characters str.strip() removes
IsSpace(c) == c \in {" ", "\n", "\t", "\r"}

\* text.find(pat, from): the lowest index >= from (counted from 0) at which
\* pat occurs in text, -1 when there is none
Find(text, pat, from) ==
    LET hits == {i \in from..(Len(text) - Len(pat)) :
                    SubSeq(text, i + 1, i + Len(pat)) = pat}
    IN  IF hits = {} THEN -1 ELSE CHOOSE i \in hits : \A j \in hits : i <= j

\* re.split(separator, text) for a literal separator: the pieces between
\* its occurrences, found left to right without overlap
RECURSIVE ReSplit(_, _)
ReSplit(text, separator) ==
    LET i == Find(text, separator, 0)
    IN  IF i = -1 THEN <<text>>
        ELSE <<SubSeq(text, 1, i)>>
             \o ReSplit(SubSeq(text, i + Len(separator) + 1, Len(text)), separator)

\* the splits that are not the empty text
RECURSIVE NonEmpty(_)
NonEmpty(splits) ==
    IF splits = <<>> THEN <<>>
    ELSE IF Head(splits) = <<>> THEN NonEmpty(Tail(splits))
    ELSE <<Head(splits)>> \o NonEmpty(Tail(splits))

\* _split_text_with_regex(text, separator, keep_separator=True): each
\* separator stays at the start of the piece that follows it; the empty
\* separator splits the text into its characters
SplitTextWithRegex(text, separator) ==
    IF separator = <<>> THEN [k \in 1..Len(text) |-> <<text[k]>>]
    ELSE LET pieces == ReSplit(text, separator)
         IN  NonEmpty([k \in 1..Len(pieces) |->
                          IF k = 1 THEN pieces[1] ELSE separator \o pieces[k]])

\* separator.join(docs)
RECURSIVE Join(_, _)
Join(docs, separator) ==
    IF docs = <<>> THEN <<>>
    ELSE IF Len(docs) = 1 THEN docs[1]
    ELSE docs[1] \o separator \o Join(Tail(docs), separator)

\* text.strip()
RECURSIVE LStrip(_)
LStrip(text) ==
    IF text # <<>> /\ IsSpace(Head(text)) THEN LStrip(Tail(text)) ELSE text

RECURSIVE RStrip(_)
RStrip(text) ==
    IF text # <<>> /\ IsSpace(text[Len(text)])
    THEN RStrip(SubSeq(text, 1, Len(text) - 1)) ELSE text

Strip(text) == RStrip(LStrip(text))

\* Python's None
None == <<"None">>

\* _join_docs: the joined and stripped text, None when nothing is left
JoinDocs(docs, separator) ==
    LET text == Strip(Join(docs, separator))
    IN  IF text = <<>> THEN None ELSE text

\* if doc is not None: docs.append(doc)
AppendDoc(docs, doc) == IF doc = None THEN docs ELSE Append(docs, doc)

\* separator_len, counted only between two splits
SepLen(current_doc, separator_len, least) ==
    IF Len(current_doc) > least THEN separator_len ELSE 0

\* a bug: nothing of the chunk just emitted is kept for the next one
PopFront_NoOverlap(current_doc, total, len, separator_len) == <<<<>>, 0>>

\* the while loop of _merge_splits: splits leave the front of current_doc
\* until at most chunk_overlap characters stay and the next split fits
RECURSIVE PopFront(_, _, _, _)
PopFront(current_doc, total, len, separator_len) ==
    IF \/ total > ChunkOverlap
       \/ /\ total + len + SepLen(current_doc, separator_len, 0) > ChunkSize
          /\ total > 0
    THEN PopFront(Tail(current_doc),
                  total - (Len(Head(current_doc)) + SepLen(current_doc, separator_len, 1)),
                  len, separator_len)
    ELSE <<current_doc, total>>

\* _merge_splits(splits, separator), from the state (docs, current_doc, total)
RECURSIVE MergeSplitsFrom(_, _, _, _, _)
MergeSplitsFrom(splits, separator, docs, current_doc, total) ==
    IF splits = <<>> THEN AppendDoc(docs, JoinDocs(current_doc, separator))
    ELSE LET d == Head(splits)
             len == Len(d)
             separator_len == Len(separator)
             emit == /\ total + len + SepLen(current_doc, separator_len, 0) > ChunkSize
                     /\ Len(current_doc) > 0
             docs2 == IF emit THEN AppendDoc(docs, JoinDocs(current_doc, separator))
                      ELSE docs
             kept == IF emit THEN PopFront(current_doc, total, len, separator_len)
                     ELSE <<current_doc, total>>
             current_doc2 == Append(kept[1], d)
             total2 == kept[2] + len + SepLen(current_doc2, separator_len, 1)
         IN  MergeSplitsFrom(Tail(splits), separator, docs2, current_doc2, total2)

MergeSplits(splits, separator) == MergeSplitsFrom(splits, separator, <<>>, <<>>, 0)

\* the position in `separators` of the separator _split_text picks: the
\* first that is empty or occurs in the text; 0 when there is none
PickSeparator(text, separators) ==
    LET found == {k \in 1..Len(separators) :
                     separators[k] = <<>> \/ Find(text, separators[k], 0) # -1}
    IN  IF found = {} THEN 0 ELSE CHOOSE k \in found : \A k2 \in found : k <= k2

\* _split_text(text, separators), and its loop over the splits from the
\* state (_good_splits, final_chunks).  With keep_separator the splits are
\* merged with the empty separator.
RECURSIVE SplitTextWith(_, _)
RECURSIVE WalkSplits(_, _, _, _)
WalkSplits(splits, new_separators, good_splits, final_chunks) ==
    LET merged == IF good_splits # <<>>
                  THEN final_chunks \o MergeSplits(good_splits, <<>>)
                  ELSE final_chunks
    IN  IF splits = <<>> THEN merged
        ELSE LET s == Head(splits)
             IN  IF Len(s) < ChunkSize
                 THEN WalkSplits(Tail(splits), new_separators,
                                 Append(good_splits, s), final_chunks)
                 ELSE WalkSplits(Tail(splits), new_separators, <<>>,
                                 merged \o (IF new_separators = <<>> THEN <<s>>
                                            ELSE SplitTextWith(s, new_separators)))

SplitTextWith(text, separators) ==
    LET k == PickSeparator(text, separators)
        separator == IF k = 0 THEN separators[Len(separators)] ELSE separators[k]
        new_separators == IF k = 0 \/ separator = <<>> THEN <<>>
                          ELSE SubSeq(separators, k + 1, Len(separators))
    IN  WalkSplits(SplitTextWithRegex(text, separator), new_separators, <<>>, <<>>)

\* text_splitter.split_text(text)
SplitText(text) == SplitTextWith(text, Separators)

\* a bug: the search starts right after the start of the previous chunk
SearchFrom_AfterStart(index, previous_chunk_len) == index + 1

\* the offset from which create_documents looks for a chunk in the text

SearchFrom(index, previous_chunk_len) ==
    Max(0, index + previous_chunk_len - ChunkOverlap)

\* create_documents for one text: each chunk with a copy of the document's
\* metadata and its start_index, from the state (index, previous_chunk_len)
RECURSIVE ChunksFrom(_, _, _, _)
ChunksFrom(doc, chunks, index, previous_chunk_len) ==
    IF chunks = <<>> THEN <<>>
    ELSE LET chunk == Head(chunks)
             start == Find(doc.page_content, chunk, SearchFrom(index, previous_chunk_len))
         IN  << [page_content |-> chunk,
                 metadata |-> [source_dataset |-> doc.metadata.source_dataset,
                               filename |-> doc.metadata.filename,
                               start_index |-> start]] >>
             \o ChunksFrom(doc, Tail(chunks), start, Len(chunk))

ChunksOf(doc) == ChunksFrom(doc, SplitText(doc.page_content), 0, 0)

\* text_splitter.split_documents(docs): the chunks of the documents, in order
RECURSIVE SplitDocuments(_)
SplitDocuments(docs) ==
    IF docs = <<>> THEN <<>> ELSE ChunksOf(Head(docs)) \o SplitDocuments(Tail(docs))

\* cell d54d8a6b
Chunking ==
    /\ pc = "chunking"
    /\ legalbench_rag_chunks' = SplitDocuments(legalbench_rag_retrieval_docs)
    /\ pc' = "build"
    /\ UNCHANGED <<error, listing, folder_i, file_i, legalbench_rag_retrieval_docs,
                   batch_i, vector_index, upserts,
                   rebuilds, run_start>>
    /\ UNCHANGED <<loaderVars, samplingVars, loopVars, checkpointVars, ragasVars,
                   writeVars, rngVars, fileVars>>

----------------------------------------------------------------------------
(* Vector store build, cell de995734 *)

\* seq[i:j], Python's slice
Slice(seq, i, j) == SubSeq(seq, i + 1, Min(j, Len(seq)))

\* the dictionary {}
EmptyDict == <<>>

\* the keyword arguments of the call at lines 360-363
AddTextsCall(batch_texts, batch_metadata) ==
    [texts |-> batch_texts, metdata |-> batch_metadata]

\* SQLiteVec.add_texts(texts, metadatas=None, **kwargs): a keyword that is
\* not a parameter lands in kwargs and is not read; without metadatas each
\* text is stored with {}.  One row per text, with the next free rowid; the
\* embedding column is left out.
Metadatas(kwargs) ==
    IF "metadatas" \in DOMAIN kwargs /\ kwargs["metadatas"] # <<>>
    THEN kwargs["metadatas"]
    ELSE [j \in 1..Len(kwargs["texts"]) |-> EmptyDict]

AddTextsRows(rows, kwargs) ==
    LET texts == kwargs["texts"]
        metadatas == Metadatas(kwargs)
    IN  rows \o [j \in 1..Min(Len(texts), Len(metadatas)) |->
                    [rowid |-> Len(rows) + j, text |-> texts[j],
                     metadata |-> metadatas[j]]]

\* range(0, len(legalbench_rag_chunks), batch_size): the value of i after i
NextBatch_Overlapping(i) == i + BatchSize - 1

NextBatch(i) == i + BatchSize

\* one turn of the build loop: the two lists of the batch and the upsert
AddTexts ==
    /\ pc = "build"
    /\ batch_i < Len(legalbench_rag_chunks)
    /\ LET batch == Slice(legalbench_rag_chunks, batch_i, batch_i + BatchSize)
           batch_texts == [j \in 1..Len(batch) |-> batch[j].page_content]
           batch_metadata == [j \in 1..Len(batch) |-> batch[j].metadata]
           kwargs == AddTextsCall(batch_texts, batch_metadata)
       IN  /\ vector_index' = AddTextsRows(vector_index, kwargs)
           /\ upserts' = Append(upserts, kwargs)
    /\ batch_i' = NextBatch(batch_i)
    /\ UNCHANGED <<pc, error, listing, folder_i, file_i, legalbench_rag_retrieval_docs,
                   legalbench_rag_chunks, rebuilds, run_start>>
    /\ UNCHANGED <<loaderVars, samplingVars, loopVars, checkpointVars, ragasVars,
                   writeVars, rngVars, fileVars>>

\* the embedding call or the insert raises: the cell and the run end
AddTextsFails ==
    /\ pc = "build"
    /\ batch_i < Len(legalbench_rag_chunks)
    /\ error' = "add_texts"
    /\ pc' = PcOnException("build")
    /\ UNCHANGED <<listing, folder_i, file_i, legalbench_rag_retrieval_docs,
                   legalbench_rag_chunks, batch_i, vector_index, upserts,
                   rebuilds, run_start>>
    /\ UNCHANGED <<loaderVars, samplingVars, loopVars, checkpointVars, ragasVars,
                   writeVars, rngVars, fileVars>>

\* the range is exhausted
FinishBuild ==
    /\ pc = "build"
    /\ batch_i >= Len(legalbench_rag_chunks)
    /\ pc' = "built"
    /\ UNCHANGED <<error, corpusVars>>
    /\ UNCHANGED <<loaderVars, samplingVars, loopVars, checkpointVars, ragasVars,
                   writeVars, rngVars, fileVars>>

\* most executions of the build cell after the first
MaxRebuilds == 2

\* a bug: the loop resumes after the rows the table holds
RangeStart_Resume(rows) == Len(rows)

\* range(0, ...): the loop starts at the first chunk whatever the table holds
RangeStart(rows) == 0

\* the build cell executed again, after it ended or after add_texts raised:
\* SQLiteVec(...) creates the table only if it does not exist, so the rows
\* stay, and the loop starts over
BuildAgain ==
    /\ pc = "built" \/ (pc = "aborted" /\ error = "add_texts")
    /\ rebuilds < MaxRebuilds
    /\ rebuilds' = rebuilds + 1
    /\ run_start' = Len(vector_index)
    /\ batch_i' = RangeStart(vector_index)
    /\ error' = "none"
    /\ pc' = "build"
    /\ UNCHANGED <<listing, folder_i, file_i, legalbench_rag_retrieval_docs,
                   legalbench_rag_chunks, vector_index, upserts>>
    /\ UNCHANGED <<loaderVars, samplingVars, loopVars, checkpointVars, ragasVars,
                   writeVars, rngVars, fileVars>>

----------------------------------------------------------------------------
(* Input data: benchmark files *)

Query1 == <<"q", "1">>
Query2 == <<"q", "2">>
Snippet1 == [answer |-> <<"A">>, file_path |-> <<"f", "1">>]
Snippet2 == [answer |-> <<"B">>, file_path |-> <<"f", "2">>]

\* the test entries a benchmark file may hold: no snippet, one, two
TestEntries ==
    { [query |-> Query1, snippets |-> <<>>],
      [query |-> Query2, snippets |-> <<Snippet1>>],
      [query |-> Query1, snippets |-> <<Snippet2, Snippet1>>] }

\* the "tests" arrays a benchmark file may hold
TestArrays == SeqsUpTo(TestEntries, MaxTests)

----------------------------------------------------------------------------
(* QA loader, cell 2c141b27 *)

\* "\nSource: "
SourceSep == <<"\n", "S", "o", "u", "r", "c", "e", ":", " ">>

\* snippet["answer"] + "\nSource: " + snippet["file_path"]
AnswerOf(snippet) == snippet.answer \o SourceSep \o snippet.file_path

\* the `answers` list built by the inner loop over example["snippets"]
AnswersOf(example) ==
    [j \in 1..Len(example.snippets) |-> AnswerOf(example.snippets[j])]

\* the record appended for one example
QARecord(qid, example) ==
    [query_id |-> qid, query |-> example.query, answers |-> AnswersOf(example)]

\* the counter after one example
NextQueryId(qid) == qid + 1

\* a bug: the counter is set back to 1 for every benchmark file
QueryIdAtOpen_Reset(qid) == 1

\* the counter when the next benchmark file is opened: `query_id = 1` stands
\* before the loop over the files, so opening a file leaves it alone
QueryIdAtOpen(qid) == qid

\* for benchmark in benchmarks: with open(...) as file: data = json.load(file)
OpenBenchmark ==
    /\ pc = "qa_loader"
    /\ ~file_open
    /\ b <= NumBenchmarks
    /\ \E tests \in TestArrays :
         /\ data' = tests
         /\ tests_read' = tests_read \o tests
    /\ file_open' = TRUE
    /\ e' = 1
    /\ query_id' = QueryIdAtOpen(query_id)
    /\ UNCHANGED <<pc, error, b, legalbench_rag_qa>>
    /\ UNCHANGED <<samplingVars, loopVars, checkpointVars, ragasVars,
                   writeVars, corpusVars, rngVars, fileVars>>

\* one iteration of `for example in data["tests"]`
LoadExample ==
    /\ pc = "qa_loader"
    /\ file_open
    /\ e <= Len(data)
    /\ legalbench_rag_qa' = Append(legalbench_rag_qa, QARecord(query_id, data[e]))
    /\ query_id' = NextQueryId(query_id)
    /\ e' = e + 1
    /\ UNCHANGED <<pc, error, b, file_open, data, tests_read>>
    /\ UNCHANGED <<samplingVars, loopVars, checkpointVars, ragasVars,
                   writeVars, corpusVars, rngVars, fileVars>>

\* the end of data["tests"]: the file is closed, the next benchmark is taken
CloseBenchmark ==
    /\ pc = "qa_loader"
    /\ file_open
    /\ e > Len(data)
    /\ file_open' = FALSE
    /\ b' = b + 1
    /\ UNCHANGED <<pc, error, data, e, query_id, legalbench_rag_qa, tests_read>>
    /\ UNCHANGED <<samplingVars, loopVars, checkpointVars, ragasVars,
                   writeVars, corpusVars, rngVars, fileVars>>

\* the end of `benchmarks`: the cell prints the count and ends
FinishLoad ==
    /\ pc = "qa_loader"
    /\ ~file_open
    /\ b > NumBenchmarks
    /\ pc' = "loaded"
    /\ UNCHANGED <<error, loaderVars>>
    /\ UNCHANGED <<samplingVars, loopVars, checkpointVars, ragasVars,
                   writeVars, corpusVars, rngVars, fileVars>>

----------------------------------------------------------------------------
(* Sampling, cell 571939b6 *)

\* a bug: the indices are drawn with replacement (random.choices)
RandomSample_WithReplacement(n, k) == [1..k -> 0..(n - 1)]

\* random.sample(range(n), k): k pairwise distinct elements of 0..n-1 in the
\* order drawn.  The seed fixes one of them; the model takes every one.
RandomSample(n, k) == DistinctSeqs(0..(n - 1), k)

\* a bug: the sampled indices are not taken out of the range
AvailableIndices_WholeRange(n, sampled) == 0..(n - 1)

\* set(range(6889)) - set(sampled_indices)
AvailableIndices(n, sampled) == (0..(n - 1)) \ Range(sampled)

\* legalbench_rag_qa[index], Python's 0-based indexing
QaAtIndex(qa, index) == qa[index + 1]

\* the number of leading indices the subset loop can serve before one is out
\* of range
RECURSIVE ServedPrefix(_, _)
ServedPrefix(sampled, n) ==
    IF sampled = <<>> \/ Head(sampled) >= n THEN 0
    ELSE 1 + ServedPrefix(Tail(sampled), n)

\* the whole cell drawing k of range(n), when every sampled index is within
\* legalbench_rag_qa
SamplingOf(n, k) ==
    /\ pc = "sampling"
    /\ \E s \in RandomSample(n, k) :
         /\ \A i \in 1..Len(s) : s[i] < Len(legalbench_rag_qa)
         /\ sampled_indices' = s
         /\ available_indices' = AvailableIndices(n, s)
         /\ legalbench_rag_subset' =
                [i \in 1..Len(s) |-> QaAtIndex(legalbench_rag_qa, s[i])]
    /\ pc' = "rag_loop"
    /\ UNCHANGED <<error, loaderVars, loopVars, checkpointVars, ragasVars,
                   writeVars, corpusVars, rngVars, fileVars>>

\* the cell, when legalbench_rag_qa[index] raises IndexError: the subset
\* holds the records appended before it
SamplingIndexErrorOf(n, k) ==
    /\ pc = "sampling"
    /\ \E s \in RandomSample(n, k) :
         /\ \E i \in 1..Len(s) : s[i] >= Len(legalbench_rag_qa)
         /\ sampled_indices' = s
         /\ available_indices' = AvailableIndices(n, s)
         /\ legalbench_rag_subset' =
                [i \in 1..ServedPrefix(s, Len(legalbench_rag_qa)) |->
                    QaAtIndex(legalbench_rag_qa, s[i])]
    /\ pc' = "aborted"
    /\ error' = "IndexError"
    /\ UNCHANGED <<loaderVars, loopVars, checkpointVars, ragasVars, writeVars,
                   corpusVars, rngVars, fileVars>>

\* the cell at the sizes the pipeline runs with
Sampling == SamplingOf(RangeSize, SampleSize)

SamplingIndexError == SamplingIndexErrorOf(RangeSize, SampleSize)

\* the cell with a sample smaller than the range, so that indices remain
\* available
DrawSample == SamplingOf(DrawRange, DrawSize)

DrawSampleIndexError == SamplingIndexErrorOf(DrawRange, DrawSize)


(* The sampling cell with the generator followed.  Python's Mersenne       *)
(* Twister is replaced by a small generator of full period; what is kept   *)
(* is the code of random.seed, _randbelow and random.sample around it.     *)

\* the states of the generator
RngStates == 0..7

\* random.seed(100)
Seed == 100

\* most executions of the sampling cell in one kernel
MaxRuns == 3

\* one step of the generator
RngStep(state) == (5 * state + 3) % 8

\* a bug: the cell does not seed the generator
RandomSeed_Unseeded(state, a) == state

\* random.seed(a) for an int: the new state is a function of `a` alone
RandomSeed(state, a) == a % 8

\* int.bit_length()
RECURSIVE BitLength(_)
BitLength(n) == IF n = 0 THEN 0 ELSE 1 + BitLength(n \div 2)

\* getrandbits(k): the value and the state the generator is left in
GetRandBits(state, k) ==
    LET next == RngStep(state) IN [value |-> next % (2 ^ k), state |-> next]

\* _randbelow(n): k = n.bit_length(); r = getrandbits(k) until r < n
RECURSIVE RandBelow(_, _)
RandBelow(state, n) ==
    LET r == GetRandBits(state, BitLength(n))
    IN  IF r.value < n THEN r ELSE RandBelow(r.state, n)

\* the selection loop of random.sample for a population larger than its
\* set size (21 + 4 ** 5 for k = 100): j = randbelow(n) until j is not in
\* `selected`
RECURSIVE SelectFrom(_, _, _, _, _)
SelectFrom(state, n, k, selected, result) ==
    IF Len(result) = k THEN [value |-> result, state |-> state]
    ELSE LET j == RandBelow(state, n)
         IN  IF j.value \in selected
             THEN SelectFrom(j.state, n, k, selected, result)
             ELSE SelectFrom(j.state, n, k, selected \cup {j.value},
                             Append(result, j.value))

\* random.sample(range(n), k) from generator state `state`
RandomSampleFrom(state, n, k) == SelectFrom(state, n, k, {}, <<>>)

\* the whole cell: seed, sample, available indices, subset.  The cell can be
\* executed again before the next one.
SeededSampling ==
    /\ pc \in {"sampling", "rag_loop"}
    /\ Len(samples) < MaxRuns
    /\ SampleSize <= RangeSize
    /\ LET drawn == RandomSampleFrom(RandomSeed(rng, Seed), RangeSize, SampleSize)
           s == drawn.value
           served == ServedPrefix(s, Len(legalbench_rag_qa))
           subset == [i \in 1..served |-> QaAtIndex(legalbench_rag_qa, s[i])]
       IN  /\ rng' = drawn.state
           /\ sampled_indices' = s
           /\ available_indices' = AvailableIndices(RangeSize, s)
           /\ legalbench_rag_subset' = subset
           /\ samples' = Append(samples, [before |-> rng, indices |-> s,
                                          subset |-> subset])
           /\ pc' = IF served = Len(s) THEN "rag_loop" ELSE "aborted"
           /\ error' = IF served = Len(s) THEN error ELSE "IndexError"
    /\ UNCHANGED <<loaderVars, loopVars, checkpointVars, ragasVars, writeVars,
                   corpusVars, fileVars>>

\* any other use of module `random` in the kernel, between two executions
\* of the cell: n = 0 is random.random(), n > 0 is a draw below n
OtherRandomUse ==
    /\ pc \in {"sampling", "rag_loop"}
    /\ Len(samples) < MaxRuns
    /\ \E n \in 0..RangeSize :
         rng' = IF n = 0 THEN RngStep(rng) ELSE RandBelow(rng, n).state
    /\ UNCHANGED <<pc, error, samples, loaderVars, samplingVars, loopVars,
                   checkpointVars, ragasVars, writeVars, corpusVars, fileVars>>

----------------------------------------------------------------------------
(* RAG loop, cell e63f6423 *)

\* top-k of similarity_search(qa["query"], k=10)
TopK == 10

\* the chunks the vector store holds, as Document objects
Doc1 == [page_content |-> <<"c", "1">>, metadata |-> "m1"]
Doc2 == [page_content |-> <<"c", "2">>, metadata |-> "m2"]
StoreDocs == {Doc1, Doc2}

\* what similarity_search may return: the min(k, store size) nearest chunks,
\* most similar first; which are nearest depends on the query's embedding
SearchOutcomes(k) == DistinctSeqs(StoreDocs, Min(k, Cardinality(StoreDocs)))

\* what the generator may answer: plain text, and text with a quote and a
\* backslash
Response1 == <<"r", "1">>
Response2 == <<"\"", "\\", "n">>
Responses == {Response1, Response2}

\* the loop building retrieved_context: each chunk's text and "\n\n"
RECURSIVE RetrievedContext(_)
RetrievedContext(chunks) ==
    IF chunks = <<>> THEN <<>>
    ELSE Head(chunks).page_content \o <<"\n", "\n">> \o RetrievedContext(Tail(chunks))

\* a bug: the record is built right after the retrieval
NextStep_SkipGeneration(s) ==
    CASE s = "search" -> "append"
      [] s = "invoke" -> "append"
      [] s = "append" -> "search"

\* a bug: the retrieval is issued again after it has returned
NextStep_RetryRetrieval(s) ==
    CASE s = "search" -> "search"
      [] s = "invoke" -> "append"
      [] s = "append" -> "search"

\* the statement order of the loop body: retrieval, generation, append
NextStep(s) ==
    CASE s = "search" -> "invoke"
      [] s = "invoke" -> "append"
      [] s = "append" -> "search"

\* a bug: the loop walks the subset from its end
QaAt_Reversed(subset, i) == subset[Len(subset) + 1 - i]

\* `qa` in iteration i of `for qa in legalbench_rag_subset`
QaAt(subset, i) == subset[i]

\* the list in the opposite order
RECURSIVE Reversed(_)
Reversed(seq) == IF seq = <<>> THEN <<>> ELSE Append(Reversed(Tail(seq)), Head(seq))

\* a bug: the chunks are stored least similar first
ResultRecord_ReversedChunks(qa, chunks, answer) ==
    [query_id |-> qa.query_id,
     query |-> qa.query,
     ground_truth_answer |-> qa.answers,
     generated_answer |-> answer,
     retrieved_chunks |-> Reversed(chunks)]

\* the dictionary `result`
ResultRecord(qa, chunks, answer) ==
    [query_id |-> qa.query_id,
     query |-> qa.query,
     ground_truth_answer |-> qa.answers,
     generated_answer |-> answer,
     retrieved_chunks |-> chunks]

Call(op, i, ok) == [op |-> op, i |-> i, ok |-> ok]

\* a bug: retrieved_context is not reset at the top of the iteration
BuildContext_CarriedOver(previous, chunks) == previous \o RetrievedContext(chunks)

\* retrieved_context = "" and the loop over retrieved_chunks
BuildContext(previous, chunks) == RetrievedContext(chunks)

\* prompt_template around {question} and {context}
TemplateHead ==
    <<"A", "n", "s", "w", "e", "r", " ", "t", "h", "e", " ", "f", "o", "l",
      "l", "o", "w", "i", "n", "g", " ", "q", "u", "e", "s", "t", "i", "o",
      "n", ":", "\n", "\n", "\n", "\n">>
TemplateMiddle ==
    <<"\n", "\n", "\n", "\n", "\n", "U", "s", "i", "n", "g", " ", "t", "h",
      "e", " ", "f", "o", "l", "l", "o", "w", "i", "n", "g", " ", "l", "i",
      "s", "t", " ", "o", "f", " ", "c", "o", "n", "t", "e", "x", "t", " ",
      "p", "a", "s", "s", "a", "g", "e", "s", ":", "\n", "\n", "\n", "\n">>
TemplateTail == <<"\n", "\n", "\n">>

\* prompt.format_prompt(question=..., context=...): both are put in verbatim
PromptMessage(question, context) ==
    TemplateHead \o question \o TemplateMiddle \o context \o TemplateTail

\* one entry of `exchanges`
Exchange(op, arg, value) == [op |-> op, arg |-> arg, value |-> value]

\* a bug: the record is put in front of the list
AppendResult_InFront(res, result) == <<result>> \o res

\* results.append(result)
AppendResult(res, result) == Append(res, result)

\* RETRIEVAL: similarity_search returns; retrieved_context is built
SimilaritySearch ==
    /\ pc = "rag_loop"
    /\ loop_i <= Len(legalbench_rag_subset)
    /\ step = "search"
    /\ \E docs \in SearchOutcomes(TopK) :
         /\ retrieved_chunks' = docs
         /\ retrieved_context' = BuildContext(retrieved_context, docs)
         /\ exchanges' = Append(exchanges,
                                Exchange("similarity_search",
                                         QaAt(legalbench_rag_subset, loop_i).query, docs))
    /\ calls' = Append(calls, Call("similarity_search", loop_i, TRUE))
    /\ step' = NextStep(step)
    /\ UNCHANGED <<pc, error, loop_i, response, results>>
    /\ UNCHANGED <<loaderVars, samplingVars, checkpointVars, ragasVars,
                   writeVars, corpusVars, rngVars, fileVars>>

\* RETRIEVAL: similarity_search raises
SimilaritySearchFails ==
    /\ pc = "rag_loop"
    /\ loop_i <= Len(legalbench_rag_subset)
    /\ step = "search"
    /\ calls' = Append(calls, Call("similarity_search", loop_i, FALSE))
    /\ error' = "similarity_search"
    /\ pc' = PcOnException(pc)
    /\ UNCHANGED <<loop_i, step, retrieved_chunks, retrieved_context, response, results,
                   exchanges>>
    /\ UNCHANGED <<loaderVars, samplingVars, checkpointVars, ragasVars,
                   writeVars, corpusVars, rngVars, fileVars>>

\* GENERATION: the prompt is formatted from qa["query"] and retrieved_context,
\* generator_llm.invoke returns
Generate ==
    /\ pc = "rag_loop"
    /\ loop_i <= Len(legalbench_rag_subset)
    /\ step = "invoke"
    /\ \E r \in Responses :
         /\ response' = r
         /\ exchanges' = Append(exchanges,
                                Exchange("invoke",
                                         PromptMessage(QaAt(legalbench_rag_subset, loop_i).query,
                                                       retrieved_context), r))
    /\ calls' = Append(calls, Call("invoke", loop_i, TRUE))
    /\ step' = NextStep(step)
    /\ UNCHANGED <<pc, error, loop_i, retrieved_chunks, retrieved_context, results>>
    /\ UNCHANGED <<loaderVars, samplingVars, checkpointVars, ragasVars,
                   writeVars, corpusVars, rngVars, fileVars>>

\* GENERATION: generator_llm.invoke raises
GenerateFails ==
    /\ pc = "rag_loop"
    /\ loop_i <= Len(legalbench_rag_subset)
    /\ step = "invoke"
    /\ calls' = Append(calls, Call("invoke", loop_i, FALSE))
    /\ error' = "invoke"
    /\ pc' = PcOnException(pc)
    /\ UNCHANGED <<loop_i, step, retrieved_chunks, retrieved_context, response, results,
                   exchanges>>
    /\ UNCHANGED <<loaderVars, samplingVars, checkpointVars, ragasVars,
                   writeVars, corpusVars, rngVars, fileVars>>

\* result = {...}; results.append(result); the loop takes the next qa
Record ==
    /\ pc = "rag_loop"
    /\ loop_i <= Len(legalbench_rag_subset)
    /\ step = "append"
    /\ results' = AppendResult(results,
                               ResultRecord(QaAt(legalbench_rag_subset, loop_i),
                                            retrieved_chunks, response))
    /\ loop_i' = loop_i + 1
    /\ step' = NextStep(step)
    /\ UNCHANGED <<pc, error, retrieved_chunks, retrieved_context, response, calls,
                   exchanges>>
    /\ UNCHANGED <<loaderVars, samplingVars, checkpointVars, ragasVars,
                   writeVars, corpusVars, rngVars, fileVars>>

\* the subset is exhausted: "The testing process is completed."
LoopExit ==
    /\ pc = "rag_loop"
    /\ loop_i > Len(legalbench_rag_subset)
    /\ pc' = "checkpoint"
    /\ UNCHANGED <<error, loaderVars, samplingVars, loopVars, checkpointVars,
                   ragasVars, writeVars, corpusVars, rngVars, fileVars>>

\* the state of the sampled query at position i
QStateOf(i, res, li, st) ==
    IF i <= Len(res) THEN "RECORDED"
    ELSE IF i = li /\ st = "invoke" THEN "RETRIEVED"
    ELSE IF i = li /\ st = "append" THEN "GENERATED"
    ELSE "PENDING"

QState(i) == QStateOf(i, results, loop_i, step)

----------------------------------------------------------------------------
(* str() and the json module, as the cells use them *)

Digits == <<"0", "1", "2", "3", "4", "5", "6", "7", "8", "9">>

\* str(n) for an int n >= 0: its decimal digits
RECURSIVE DecStr(_)
DecStr(n) ==
    IF n < 10 THEN <<Digits[n + 1]>>
    ELSE DecStr(n \div 10) \o <<Digits[(n % 10) + 1]>>

\* the value of one decimal digit
DigitValue(c) == (CHOOSE d \in 1..10 : Digits[d] = c) - 1

IsDigit(c) == \E d \in 1..10 : Digits[d] = c

\* the text of a dictionary key
KeyText(name) ==
    CASE name = "query_id" -> <<"q", "u", "e", "r", "y", "_", "i", "d">>
      [] name = "query" -> <<"q", "u", "e", "r", "y">>
      [] name = "ground_truth_answer" ->
            <<"g", "r", "o", "u", "n", "d", "_", "t", "r", "u", "t", "h", "_",
              "a", "n", "s", "w", "e", "r">>
      [] name = "generated_answer" ->
            <<"g", "e", "n", "e", "r", "a", "t", "e", "d", "_",
              "a", "n", "s", "w", "e", "r">>
      [] name = "retrieved_chunks" ->
            <<"r", "e", "t", "r", "i", "e", "v", "e", "d", "_",
              "c", "h", "u", "n", "k", "s">>
      [] name = "page_content" ->
            <<"p", "a", "g", "e", "_", "c", "o", "n", "t", "e", "n", "t">>
      [] name = "results" -> <<"r", "e", "s", "u", "l", "t", "s">>
      [] name = "gt_answer" -> <<"g", "t", "_", "a", "n", "s", "w", "e", "r">>
      [] name = "response" -> <<"r", "e", "s", "p", "o", "n", "s", "e">>
      [] name = "retrieved_context" ->
            <<"r", "e", "t", "r", "i", "e", "v", "e", "d", "_",
              "c", "o", "n", "t", "e", "x", "t">>
      [] name = "text" -> <<"t", "e", "x", "t">>

\* a bug: the backslash is written as it is
JsonEscapeChar_RawBackslash(c) ==
    CASE c = "\"" -> <<"\\", "\"">>
      [] c = "\n" -> <<"\\", "n">>
      [] OTHER -> <<c>>

\* json.dump, one character of a string: quote, backslash and newline are
\* escaped (the texts of the model hold no other control or non-ASCII
\* character)
JsonEscapeChar(c) ==
    CASE c = "\"" -> <<"\\", "\"">>
      [] c = "\\" -> <<"\\", "\\">>
      [] c = "\n" -> <<"\\", "n">>
      [] OTHER -> <<c>>

\* json.dump of a str
JsonStr(s) ==
    <<"\"">> \o Concat([i \in 1..Len(s) |-> JsonEscapeChar(s[i])]) \o <<"\"">>

\* json.dump of an int
JsonInt(n) == DecStr(n)

RECURSIVE JoinItems(_)
\* the encoded items, a comma and a line break between two of them
JoinItems(items) ==
    IF Len(items) = 1 THEN Head(items)
    ELSE Head(items) \o <<",", "\n">> \o JoinItems(Tail(items))

\* json.dump(..., indent=4) of a list, given its encoded items.  The run of
\* spaces that indents a line is not written out: the decoder skips white
\* space wherever the encoder puts it.
JsonList(items) ==
    IF items = <<>> THEN <<"[", "]">>
    ELSE <<"[", "\n">> \o JoinItems(items) \o <<"\n", "]">>

\* one "key": value member
JsonMember(name, value) == JsonStr(KeyText(name)) \o <<":", " ">> \o value

\* json.dump(..., indent=4) of a dict, given its encoded members in insertion
\* order
JsonDict(members) ==
    IF members = <<>> THEN <<"{", "}">>
    ELSE <<"{", "\n">> \o JoinItems(members) \o <<"\n", "}">>

\* json.load: a recursive-descent reading of the text t from position i;
\* each Parse... gives the value read and the position after it
IsWs(c) == c = " " \/ c = "\n"

RECURSIVE SkipWs(_, _)
SkipWs(t, i) == IF i <= Len(t) /\ IsWs(t[i]) THEN SkipWs(t, i + 1) ELSE i

\* the character an escape sequence \c stands for
JsonUnescape(c) == IF c = "n" THEN "\n" ELSE c

RECURSIVE ParseStrBody(_, _, _)
\* the characters after the opening quote, up to the closing one
ParseStrBody(t, i, acc) ==
    IF t[i] = "\"" THEN [val |-> acc, next |-> i + 1]
    ELSE IF t[i] = "\\" THEN ParseStrBody(t, i + 2, Append(acc, JsonUnescape(t[i + 1])))
    ELSE ParseStrBody(t, i + 1, Append(acc, t[i]))

RECURSIVE ParseIntBody(_, _, _)
ParseIntBody(t, i, acc) ==
    IF i <= Len(t) /\ IsDigit(t[i]) THEN ParseIntBody(t, i + 1, 10 * acc + DigitValue(t[i]))
    ELSE [val |-> acc, next |-> i]

RECURSIVE ParseValue(_, _)
RECURSIVE ParseListBody(_, _, _)
RECURSIVE ParseDictBody(_, _, _)

\* the items of a list, from the first one: a Python list
ParseListBody(t, i, acc) ==
    LET item == ParseValue(t, i)
        j == SkipWs(t, item.next)
    IN  IF t[j] = "," THEN ParseListBody(t, SkipWs(t, j + 1), Append(acc, item.val))
        ELSE [val |-> Append(acc, item.val), next |-> j + 1]

\* the members of an object, from the first key: a Python dict, a function
\* from the key texts
ParseDictBody(t, i, acc) ==
    LET key == ParseStrBody(t, i + 1, <<>>)
        c == SkipWs(t, key.next)
        member == ParseValue(t, SkipWs(t, c + 1))
        j == SkipWs(t, member.next)
        dict == (key.val :> member.val) @@ acc
    IN  IF t[j] = "," THEN ParseDictBody(t, SkipWs(t, j + 1), dict)
        ELSE [val |-> dict, next |-> j + 1]

ParseValue(t, i) ==
    IF t[i] = "\"" THEN ParseStrBody(t, i + 1, <<>>)
    ELSE IF t[i] = "[" THEN
        LET j == SkipWs(t, i + 1)
        IN  IF t[j] = "]" THEN [val |-> <<>>, next |-> j + 1]
            ELSE ParseListBody(t, j, <<>>)
    ELSE IF t[i] = "{" THEN
        LET j == SkipWs(t, i + 1)
        IN  IF t[j] = "}" THEN [val |-> <<>>, next |-> j + 1]
            ELSE ParseDictBody(t, j, <<>>)
    ELSE ParseIntBody(t, i, 0)

\* json.load(file)
JsonLoad(t) == ParseValue(t, SkipWs(t, 1)).val

\* d[name] of a loaded dict
Get(d, name) == d[KeyText(name)]

----------------------------------------------------------------------------
(* Checkpoint, cells 7f250627 and 0d6996f9 *)

\* [{"page_content": chunk.page_content} for chunk in res["retrieved_chunks"]]
ChunkDicts(chunks) ==
    [j \in 1..Len(chunks) |-> [page_content |-> chunks[j].page_content]]

\* res.copy() with its retrieved_chunks replaced
SerializableRes(res) ==
    [res EXCEPT !.retrieved_chunks = ChunkDicts(res.retrieved_chunks)]

\* the list serializable_results built from `results`
SerializableResults(res_list) ==
    [k \in 1..Len(res_list) |-> SerializableRes(res_list[k])]

(* The loop of cell 7f250627 on the dict objects.  `objects` holds the     *)
(* items of every dict: the dicts of `results` at the positions of the     *)
(* list, the dicts the loop creates after them.  A reference is a position *)
(* in `objects`.                                                           *)

\* a bug: serializable_res = res, the same dict under a second name
DictCopy_SameObject(objects, ref) == [objects |-> objects, ref |-> ref]

\* res.copy(): a new dict with the items of res
DictCopy(objects, ref) ==
    [objects |-> Append(objects, objects[ref]), ref |-> Len(objects) + 1]

\* serializable_res["retrieved_chunks"] = value: the dict referred to is
\* changed, whatever names refer to it
SetRetrievedChunks(objects, ref, value) ==
    [objects EXCEPT ![ref].retrieved_chunks = value]

\* for res in results, from the k-th record on; `refs` is
\* serializable_results as references
RECURSIVE SerializeLoop(_, _, _, _)
SerializeLoop(objects, n, k, refs) ==
    IF k > n THEN [objects |-> objects, refs |-> refs]
    ELSE LET copied == DictCopy(objects, k)
             chunk_dicts == ChunkDicts(objects[k].retrieved_chunks)
         IN  SerializeLoop(SetRetrievedChunks(copied.objects, copied.ref, chunk_dicts),
                           n, k + 1, Append(refs, copied.ref))

\* the dicts after the loop
Serialized(res_list) == SerializeLoop(res_list, Len(res_list), 1, <<>>)

\* `results` after the loop: the dicts the list referred to before it
ResultsAfterSerializing(res_list) ==
    SubSeq(Serialized(res_list).objects, 1, Len(res_list))

\* serializable_results after the loop
SerializableResultsBuilt(res_list) ==
    LET after == Serialized(res_list)
    IN  [j \in 1..Len(after.refs) |-> after.objects[after.refs[j]]]

\* json.dump of one {"page_content": ...}
DumpChunkDict(c) == JsonDict(<<JsonMember("page_content", JsonStr(c.page_content))>>)

\* json.dump of one serializable result
DumpResult(r) ==
    JsonDict(<<
        JsonMember("query_id", JsonInt(r.query_id)),
        JsonMember("query", JsonStr(r.query)),
        JsonMember("ground_truth_answer",
                   JsonList([j \in 1..Len(r.ground_truth_answer) |->
                                JsonStr(r.ground_truth_answer[j])])),
        JsonMember("generated_answer", JsonStr(r.generated_answer)),
        JsonMember("retrieved_chunks",
                   JsonList([j \in 1..Len(r.retrieved_chunks) |->
                                DumpChunkDict(r.retrieved_chunks[j])]))
    >>)

\* json.dump(serializable_results, file, indent=4)
DumpResults(sr) == JsonList([k \in 1..Len(sr) |-> DumpResult(sr[k])])

\* cell 7f250627: the results are made serializable and written
Checkpoint ==
    /\ pc = "checkpoint"
    /\ results' = ResultsAfterSerializing(results)
    /\ serializable_results' = SerializableResultsBuilt(results)
    /\ results_file' = DumpResults(SerializableResultsBuilt(results))
    /\ pc' = "reload"
    /\ UNCHANGED <<error, json_results, ragchecker_results, ragchecker_file>>
    /\ UNCHANGED <<loop_i, step, retrieved_chunks, retrieved_context, response, calls,
                   exchanges>>
    /\ UNCHANGED <<loaderVars, samplingVars, ragasVars, writeVars, corpusVars,
                   rngVars, fileVars>>

\* cell 0d6996f9: json_results = json.load(file)
Reload ==
    /\ pc = "reload"
    /\ json_results' = JsonLoad(results_file)
    /\ pc' = "formatter"
    /\ UNCHANGED <<error, serializable_results, results_file, ragchecker_results,
                   ragchecker_file>>
    /\ UNCHANGED <<loaderVars, samplingVars, loopVars, ragasVars, writeVars, corpusVars,
                   rngVars, fileVars>>

----------------------------------------------------------------------------
(* RAGChecker formatter, cells c8aa5eb7 and d02c55fc *)

\* str(res["query_id"])
FormattedQueryId(res) == DecStr(Get(res, "query_id"))

\* a bug: the last ground-truth answer is taken
GtAnswer_Last(res) ==
    Get(res, "ground_truth_answer")[Len(Get(res, "ground_truth_answer"))]

\* res["ground_truth_answer"][0]
GtAnswer(res) == Get(res, "ground_truth_answer")[1]

\* a bug: the test is off by one, a single ground-truth answer does not pass
HasGroundTruth_MoreThanOne(res) == Len(Get(res, "ground_truth_answer")) > 1

\* if (len(res["ground_truth_answer"]) > 0)
HasGroundTruth(res) == Len(Get(res, "ground_truth_answer")) > 0

\* the inner loop: {"text": chunk["page_content"]} for each retrieved chunk
RetrievedContextOf(res) ==
    [j \in 1..Len(Get(res, "retrieved_chunks")) |->
        [text |-> Get(Get(res, "retrieved_chunks")[j], "page_content")]]

\* the dictionary formatted_res
FormattedRes(res) ==
    [query_id |-> FormattedQueryId(res),
     query |-> Get(res, "query"),
     gt_answer |-> GtAnswer(res),
     response |-> Get(res, "generated_answer"),
     retrieved_context |-> RetrievedContextOf(res)]

\* `for res in json_results`, from position k on: the formatted records in
\* the order appended
RECURSIVE FormatFrom(_, _)
FormatFrom(jr, k) ==
    IF k > Len(jr) THEN <<>>
    ELSE IF HasGroundTruth(jr[k]) THEN <<FormattedRes(jr[k])>> \o FormatFrom(jr, k + 1)
    ELSE FormatFrom(jr, k + 1)

\* the dictionary ragchecker_results the cell builds
RagcheckerResults(jr) == [results |-> FormatFrom(jr, 1)]

\* json.dump of one formatted record
DumpFormattedRes(r) ==
    JsonDict(<<
        JsonMember("query_id", JsonStr(r.query_id)),
        JsonMember("query", JsonStr(r.query)),
        JsonMember("gt_answer", JsonStr(r.gt_answer)),
        JsonMember("response", JsonStr(r.response)),
        JsonMember("retrieved_context",
                   JsonList([j \in 1..Len(r.retrieved_context) |->
                       JsonDict(<<JsonMember("text", JsonStr(r.retrieved_context[j].text))>>)]))
    >>)

\* json.dump(ragchecker_results, file, indent=4)
DumpRagchecker(rr) ==
    JsonDict(<<JsonMember("results",
                          JsonList([k \in 1..Len(rr.results) |->
                                       DumpFormattedRes(rr.results[k])]))>>)

\* cell c8aa5eb7
Formatter ==
    /\ pc = "formatter"
    /\ ragchecker_results' = RagcheckerResults(json_results)
    /\ pc' = "ragchecker_checkpoint"
    /\ UNCHANGED <<error, serializable_results, results_file, json_results,
                   ragchecker_file>>
    /\ UNCHANGED <<loaderVars, samplingVars, loopVars, ragasVars, writeVars, corpusVars,
                   rngVars, fileVars>>

\* cell d02c55fc
RagcheckerCheckpoint ==
    /\ pc = "ragchecker_checkpoint"
    /\ ragchecker_file' = DumpRagchecker(ragchecker_results)
    /\ pc' = "done"
    /\ UNCHANGED <<error, serializable_results, results_file, json_results,
                   ragchecker_results>>
    /\ UNCHANGED <<loaderVars, samplingVars, loopVars, ragasVars, writeVars, corpusVars,
                   rngVars, fileVars>>

----------------------------------------------------------------------------
(* RAGAs, cells 1e94e649 and c0c40b3f *)

\* the divisor of the final loop: metrics[metric_label] /= 100
AverageDivisor == 100

\* the scores single_turn_ascore may return: the lowest and the highest
Scores == {0, 1}

MetricLabels == {"faithfulness", "answer_relevance", "context_relevance"}

\* a running total is kept as a fraction <<numerator, denominator>>
\* (rounding of Python's floats is not modelled)
FracAdd(f, s) == <<f[1] + s * f[2], f[2]>>
FracDiv(f, d) == <<f[1], f[2] * d>>
\* the fraction f equals num / den
FracIs(f, num, den) == f[1] * den = num * f[2]

\* cell 1e94e649: json_results = json.load(file), in the RAGAs environment
RagasLoad ==
    /\ pc = "ragas_load"
    /\ json_results' = JsonLoad(results_file)
    /\ pc' = "ragas_loop"
    /\ UNCHANGED <<error, serializable_results, results_file, ragchecker_results,
                   ragchecker_file>>
    /\ UNCHANGED <<loaderVars, samplingVars, loopVars, ragasVars, writeVars, corpusVars,
                   rngVars, fileVars>>

\* sample = SingleTurnSample(...) for the record at ragas_i
BuildSample ==
    /\ pc = "ragas_loop"
    /\ ragas_i <= Len(json_results)
    /\ ragas_step = "sample"
    /\ Len(Get(json_results[ragas_i], "ground_truth_answer")) > 0
    /\ sample' =
         [user_input |-> Get(json_results[ragas_i], "query"),
          response |-> Get(json_results[ragas_i], "generated_answer"),
          reference |-> Get(json_results[ragas_i], "ground_truth_answer")[1],
          retrieved_contexts |->
              [j \in 1..Len(Get(json_results[ragas_i], "retrieved_chunks")) |->
                  Get(Get(json_results[ragas_i], "retrieved_chunks")[j], "page_content")]]
    /\ ragas_step' = "faithfulness"
    /\ UNCHANGED <<pc, error, ragas_i, metrics, scores, augend, outstanding>>
    /\ UNCHANGED <<loaderVars, samplingVars, loopVars, checkpointVars,
                   writeVars, corpusVars, rngVars, fileVars>>

\* rag_result["ground_truth_answer"][0] on an empty list: IndexError
BuildSampleIndexError ==
    /\ pc = "ragas_loop"
    /\ ragas_i <= Len(json_results)
    /\ ragas_step = "sample"
    /\ Len(Get(json_results[ragas_i], "ground_truth_answer")) = 0
    /\ error' = "IndexError"
    /\ pc' = PcOnException(pc)
    /\ UNCHANGED <<ragasVars, loaderVars, samplingVars, loopVars,
                   checkpointVars, writeVars, corpusVars, rngVars, fileVars>>

\* the place of the coroutine while it awaits the score of `label`
AwaitStep(label) ==
    CASE label = "faithfulness" -> "await faithfulness"
      [] label = "answer_relevance" -> "await answer_relevance"
      [] label = "context_relevance" -> "await context_relevance"

\* the statement after the one that scores `label`
StepAfter(label) ==
    CASE label = "faithfulness" -> "answer_relevance"
      [] label = "answer_relevance" -> "context_relevance"
      [] label = "context_relevance" -> "sample"

\* a bug: the coroutine is scheduled and not awaited, the cell goes on
Suspend_NotAwaited(label) == StepAfter(label)

\* `await`: the cell is suspended until the call returns
Suspend(label) == AwaitStep(label)

\* metrics[label] += await <metric>.single_turn_ascore(sample), first half:
\* `+=` reads metrics[label], the call is issued, the cell is suspended
AwaitScore ==
    /\ pc = "ragas_loop"
    /\ ragas_i <= Len(json_results)
    /\ ragas_step \in MetricLabels
    /\ augend' = metrics[ragas_step]
    /\ outstanding' = outstanding \cup {[label |-> ragas_step, i |-> ragas_i]}
    /\ ragas_step' = Suspend(ragas_step)
    /\ UNCHANGED <<pc, error, ragas_i, sample, metrics, scores>>
    /\ UNCHANGED <<loaderVars, samplingVars, loopVars, checkpointVars,
                   writeVars, corpusVars, rngVars, fileVars>>

\* second half: the call returns its score, the sum of the value read and
\* the score is stored
ScoreMetric(label, next_step) ==
    /\ pc = "ragas_loop"
    /\ ragas_i <= Len(json_results)
    /\ ragas_step = AwaitStep(label)
    /\ \E s \in Scores :
         /\ metrics' = [metrics EXCEPT ![label] = FracAdd(augend, s)]
         /\ scores' = IF label = "faithfulness"
                      THEN Append(scores, [faithfulness |-> s, answer_relevance |-> 0,
                                           context_relevance |-> 0])
                      ELSE [scores EXCEPT ![Len(scores)][label] = s]
    /\ outstanding' = outstanding \ {[label |-> label, i |-> ragas_i]}
    /\ ragas_step' = next_step
    /\ ragas_i' = IF next_step = "sample" THEN ragas_i + 1 ELSE ragas_i
    /\ UNCHANGED <<pc, error, sample, augend>>
    /\ UNCHANGED <<loaderVars, samplingVars, loopVars, checkpointVars,
                   writeVars, corpusVars, rngVars, fileVars>>

ScoreFaithfulness == ScoreMetric("faithfulness", "answer_relevance")
ScoreAnswerRelevance == ScoreMetric("answer_relevance", "context_relevance")
\* the last statement of the body: the loop takes the next record
ScoreContextRelevance == ScoreMetric("context_relevance", "sample")

\* for metric_label in list(metrics.keys()): metrics[metric_label] /= 100
RagasAverage ==
    /\ pc = "ragas_loop"
    /\ ragas_i > Len(json_results)
    /\ metrics' = [label \in MetricLabels |-> FracDiv(metrics[label], AverageDivisor)]
    /\ pc' = "ragas_done"
    /\ UNCHANGED <<error, ragas_i, ragas_step, sample, scores, augend, outstanding>>
    /\ UNCHANGED <<loaderVars, samplingVars, loopVars, checkpointVars,
                   writeVars, corpusVars, rngVars, fileVars>>

----------------------------------------------------------------------------
(* The framework results file, cells 3ac6ff37 (RAGChecker) and 23345235     *)
(* (RAGAs)                                                                  *)

\* the number of executions of the write cells in one behaviour
MaxWrites == 3

\* str(rag_results): the metrics object RAGChecker prints
RagResultsTexts == { <<"R", "1">>, <<"R", "2">> }

RagcheckerHeader ==
    <<"R", "A", "G", "C", "h", "e", "c", "k", "e", "r", " ", "r", "e", "s",
      "u", "l", "t", "s", ":", "\n", "\n">>

RagasHeader ==
    <<"\n", "\n", "R", "A", "G", "A", "s", " ", "r", "e", "s", "u", "l",
      "t", "s", ":", "\n", "\n">>

\* the quoted name of a metric in str(metrics)
LabelText(label) ==
    CASE label = "faithfulness" ->
            <<"'", "f", "a", "i", "t", "h", "f", "u", "l", "n", "e", "s",
              "s", "'">>
      [] label = "answer_relevance" ->
            <<"'", "a", "n", "s", "w", "e", "r", "_", "r", "e", "l", "e",
              "v", "a", "n", "c", "e", "'">>
      [] label = "context_relevance" ->
            <<"'", "c", "o", "n", "t", "e", "x", "t", "_", "r", "e", "l",
              "e", "v", "a", "n", "c", "e", "'">>

\* a metric value as printed; the fraction is written out, the digits of
\* Python's float repr are not modelled
StrValue(f) == DecStr(f[1]) \o <<"/">> \o DecStr(f[2])

\* str(metrics): the items in insertion order
StrMetrics(m) ==
    <<"{">> \o LabelText("faithfulness") \o <<":", " ">> \o StrValue(m["faithfulness"])
    \o <<",", " ">> \o LabelText("answer_relevance") \o <<":", " ">>
    \o StrValue(m["answer_relevance"])
    \o <<",", " ">> \o LabelText("context_relevance") \o <<":", " ">>
    \o StrValue(m["context_relevance"]) \o <<"}">>

\* the text of a file, the empty text when the file does not exist
TextOf(f) == IF f = NoFile THEN <<>> ELSE f

\* the text a `mode` open leaves in the file before the first write: "w"
\* truncates, "a+" keeps the text and writes at its end
OpenMode(mode, f) == IF mode = "w" THEN <<>> ELSE TextOf(f)

RagcheckerBlock == RagcheckerHeader \o rag_results
RagasBlock == RagasHeader \o StrMetrics(metrics)

\* cell 3ac6ff37: open(..., "w"); file.write("RAGChecker results:\n\n" + str(rag_results))
RagcheckerWrite ==
    /\ pc = "write"
    /\ Len(blocks_written) < MaxWrites
    /\ framework_results_file' = OpenMode("w", framework_results_file) \o RagcheckerBlock
    /\ blocks_written' = Append(blocks_written, RagcheckerBlock)
    /\ UNCHANGED <<pc, error, rag_results>>
    /\ UNCHANGED <<loaderVars, samplingVars, loopVars, checkpointVars,
                   ragasVars, corpusVars, rngVars, fileVars>>

\* cell 23345235: open(..., "a+"); file.write("\n\nRAGAs results:\n\n" + str(metrics))
RagasWrite ==
    /\ pc = "write"
    /\ Len(blocks_written) < MaxWrites
    /\ framework_results_file' = OpenMode("a+", framework_results_file) \o RagasBlock
    /\ blocks_written' = Append(blocks_written, RagasBlock)
    /\ UNCHANGED <<pc, error, rag_results>>
    /\ UNCHANGED <<loaderVars, samplingVars, loopVars, checkpointVars,
                   ragasVars, corpusVars, rngVars, fileVars>>


----------------------------------------------------------------------------
(* Connections and file handles: the cells that open legalbench_rag.db,    *)
(* legalbench_rag_results.json and legalbench_rag_ragchecker.json, each    *)
(* `with` block in two steps, the open and the body with the exit          *)

\* the connection SQLiteVec(..., connection=None) opens in the build cell
BuildConnection == "build"
\* the connection SQLiteVec.create_connection returns in the loop cell
LoopConnection == "loop"

ResultsJson == "legalbench_rag_results.json"
RagcheckerJson == "legalbench_rag_ragchecker.json"

\* open(file, mode): one more handle
OpenHandle(hs, file, mode) == Append(hs, [file |-> file, mode |-> mode])

\* a bug: the file is opened without `with` and never closed
WithExit_LeftOpen(hs, file) == hs

\* the exit of `with open(file)`: the handle is closed
WithExit(hs, file) == SelectSeq(hs, LAMBDA h : h.file # file)

Event(file, ev) == [file |-> file, ev |-> ev]

\* line 455: connection = SQLiteVec.create_connection(db_file=...), while
\* legalbench_rag_vector_store is still the store of the build cell
CreateConnection ==
    /\ pc = "rag_loop"
    /\ store_connection = BuildConnection
    /\ LoopConnection \notin Range(connections)
    /\ connections' = Append(connections, LoopConnection)
    /\ UNCHANGED <<pc, error, store_connection, handles, accesses>>
    /\ UNCHANGED <<loaderVars, samplingVars, loopVars, checkpointVars, ragasVars,
                   writeVars, corpusVars, rngVars>>

\* lines 457-461: the name is bound to a store on the new connection.  The
\* store of the build cell is no longer referenced: when it is finalized,
\* and its connection closed with it, is up to the interpreter.
BindVectorStore ==
    /\ pc = "rag_loop"
    /\ store_connection = BuildConnection
    /\ LoopConnection \in Range(connections)
    /\ store_connection' = LoopConnection
    /\ \E finalized \in BOOLEAN :
         connections' = IF finalized
                        THEN SelectSeq(connections, LAMBDA c : c # BuildConnection)
                        ELSE connections
    /\ UNCHANGED <<pc, error, handles, accesses>>
    /\ UNCHANGED <<loaderVars, samplingVars, loopVars, checkpointVars, ragasVars,
                   writeVars, corpusVars, rngVars>>

\* the loop body runs on the store bound at lines 457-461
StoreBound == store_connection = LoopConnection

\* cell 7f250627 up to open(..., "w"): the file is created or truncated
CheckpointOpen ==
    /\ pc = "checkpoint"
    /\ results' = ResultsAfterSerializing(results)
    /\ serializable_results' = SerializableResultsBuilt(results)
    /\ results_file' = <<>>
    /\ handles' = OpenHandle(handles, ResultsJson, "w")
    /\ accesses' = Append(accesses, Event(ResultsJson, "open w"))
    /\ pc' = "checkpoint_dump"
    /\ UNCHANGED <<error, json_results, ragchecker_results, ragchecker_file,
                   connections, store_connection>>
    /\ UNCHANGED <<loop_i, step, retrieved_chunks, retrieved_context, response, calls,
                   exchanges>>
    /\ UNCHANGED <<loaderVars, samplingVars, ragasVars, writeVars, corpusVars,
                   rngVars>>

\* json.dump(serializable_results, file, indent=4) and the exit of `with`
CheckpointDump ==
    /\ pc = "checkpoint_dump"
    /\ results_file' = DumpResults(serializable_results)
    /\ handles' = WithExit(handles, ResultsJson)
    /\ accesses' = Append(accesses, Event(ResultsJson, "close w"))
    /\ pc' = "reload"
    /\ UNCHANGED <<error, serializable_results, json_results, ragchecker_results,
                   ragchecker_file, connections, store_connection>>
    /\ UNCHANGED <<loaderVars, samplingVars, loopVars, ragasVars, writeVars, corpusVars,
                   rngVars>>

\* cell 0d6996f9 (next_pc = "formatter") and cell 1e94e649 (next_pc =
\* "ragas_loop"): open(..., "r")
ReadResultsOpen(at) ==
    /\ pc = at
    /\ handles' = OpenHandle(handles, ResultsJson, "r")
    /\ accesses' = Append(accesses, Event(ResultsJson, "open r"))
    /\ pc' = IF at = "reload" THEN "reload_load" ELSE "ragas_load_load"
    /\ UNCHANGED <<error, checkpointVars, connections, store_connection>>
    /\ UNCHANGED <<loaderVars, samplingVars, loopVars, ragasVars, writeVars, corpusVars,
                   rngVars>>

\* json_results = json.load(file) and the exit of `with`
ReadResultsLoad(at, next_pc) ==
    /\ pc = at
    /\ json_results' = JsonLoad(results_file)
    /\ handles' = WithExit(handles, ResultsJson)
    /\ accesses' = Append(accesses, Event(ResultsJson, "close r"))
    /\ pc' = next_pc
    /\ UNCHANGED <<error, serializable_results, results_file, ragchecker_results,
                   ragchecker_file, connections, store_connection>>
    /\ UNCHANGED <<loaderVars, samplingVars, loopVars, ragasVars, writeVars, corpusVars,
                   rngVars>>

ReloadOpen == ReadResultsOpen("reload")
ReloadLoad == ReadResultsLoad("reload_load", "formatter")
RagasLoadOpen == ReadResultsOpen("ragas_load")
RagasLoadLoad == ReadResultsLoad("ragas_load_load", "ragas_loop")

\* cell d02c55fc up to open(..., "w")
RagcheckerCheckpointOpen ==
    /\ pc = "ragchecker_checkpoint"
    /\ ragchecker_file' = <<>>
    /\ handles' = OpenHandle(handles, RagcheckerJson, "w")
    /\ accesses' = Append(accesses, Event(RagcheckerJson, "open w"))
    /\ pc' = "ragchecker_dump"
    /\ UNCHANGED <<error, serializable_results, results_file, json_results,
                   ragchecker_results, connections, store_connection>>
    /\ UNCHANGED <<loaderVars, samplingVars, loopVars, ragasVars, writeVars, corpusVars,
                   rngVars>>

\* json.dump(ragchecker_results, file, indent=4) and the exit of `with`
RagcheckerCheckpointDump ==
    /\ pc = "ragchecker_dump"
    /\ ragchecker_file' = DumpRagchecker(ragchecker_results)
    /\ handles' = WithExit(handles, RagcheckerJson)
    /\ accesses' = Append(accesses, Event(RagcheckerJson, "close w"))
    /\ pc' = "ragchecker_eval"
    /\ UNCHANGED <<error, serializable_results, results_file, json_results,
                   ragchecker_results, connections, store_connection>>
    /\ UNCHANGED <<loaderVars, samplingVars, loopVars, ragasVars, writeVars, corpusVars,
                   rngVars>>

\* the RAGChecker cell, lines 773-774: open(...) for reading
RagcheckerReadOpen ==
    /\ pc = "ragchecker_eval"
    /\ handles' = OpenHandle(handles, RagcheckerJson, "r")
    /\ accesses' = Append(accesses, Event(RagcheckerJson, "open r"))
    /\ pc' = "ragchecker_read"
    /\ UNCHANGED <<error, checkpointVars, connections, store_connection>>
    /\ UNCHANGED <<loaderVars, samplingVars, loopVars, ragasVars, writeVars, corpusVars,
                   rngVars>>

\* rag_results = RAGResults.from_json(fp.read()) and the exit of `with`; the
\* object it builds is not followed
RagcheckerRead ==
    /\ pc = "ragchecker_read"
    /\ handles' = WithExit(handles, RagcheckerJson)
    /\ accesses' = Append(accesses, Event(RagcheckerJson, "close r"))
    /\ pc' = "ragas_load"
    /\ UNCHANGED <<error, checkpointVars, connections, store_connection>>
    /\ UNCHANGED <<loaderVars, samplingVars, loopVars, ragasVars, writeVars, corpusVars,
                   rngVars>>

----------------------------------------------------------------------------
(* Values of the names a cell has not bound yet *)

NoMetrics == [faithfulness |-> <<0, 1>>, answer_relevance |-> <<0, 1>>,
              context_relevance |-> <<0, 1>>]
NoSample == [user_input |-> <<>>, response |-> <<>>, reference |-> <<>>,
             retrieved_contexts |-> <<>>]

SamplingUnbound ==
    /\ sampled_indices = <<>>
    /\ available_indices = {}
    /\ legalbench_rag_subset = <<>>

LoopUnbound ==
    /\ loop_i = 1
    /\ step = "search"
    /\ retrieved_chunks = <<>>
    /\ retrieved_context = <<>>
    /\ response = <<>>
    /\ results = <<>>
    /\ calls = <<>>
    /\ exchanges = <<>>

CheckpointUnbound ==
    /\ serializable_results = <<>>
    /\ results_file = NoFile
    /\ json_results = <<>>
    /\ ragchecker_results = [results |-> <<>>]
    /\ ragchecker_file = NoFile

RagasUnbound ==
    /\ ragas_i = 1
    /\ ragas_step = "sample"
    /\ sample = NoSample
    /\ metrics = NoMetrics
    /\ scores = <<>>
    /\ augend = <<0, 1>>
    /\ outstanding = {}

CorpusUnbound ==
    /\ listing = <<>>
    /\ folder_i = 1
    /\ file_i = 1
    /\ legalbench_rag_retrieval_docs = <<>>
    /\ legalbench_rag_chunks = <<>>
    /\ batch_i = 0
    /\ vector_index = <<>>
    /\ upserts = <<>>
    /\ rebuilds = 0
    /\ run_start = 0

WriteUnbound ==
    /\ rag_results = <<>>
    /\ framework_results_file = NoFile
    /\ blocks_written = <<>>

\* the generator is not followed: Sampling takes every sequence a seed may fix
RngUnbound ==
    /\ rng = 0
    /\ samples = <<>>

\* connections and handles are not followed
FilesUnbound ==
    /\ connections = <<>>
    /\ store_connection = "none"
    /\ handles = <<>>
    /\ accesses = <<>>

----------------------------------------------------------------------------
(* The QA loader on its own *)

InitLoad ==
    /\ pc = "qa_loader"
    /\ error = "none"
    /\ b = 1
    /\ file_open = FALSE
    /\ data = <<>>
    /\ e = 1
    /\ query_id = 1
    /\ legalbench_rag_qa = <<>>
    /\ tests_read = <<>>
    /\ SamplingUnbound
    /\ LoopUnbound
    /\ CheckpointUnbound
    /\ RagasUnbound
    /\ CorpusUnbound
    /\ WriteUnbound
    /\ RngUnbound
    /\ FilesUnbound

NextLoad == OpenBenchmark \/ LoadExample \/ CloseBenchmark \/ FinishLoad

SpecLoad == InitLoad /\ [][NextLoad]_vars

----------------------------------------------------------------------------
(* The pipeline from the sampling cell to the RAGChecker checkpoint *)

\* the loader's result for a list of test entries read in this order
RECURSIVE LoadTests(_, _, _)
LoadTests(qa, qid, tests) ==
    IF tests = <<>> THEN qa
    ELSE LoadTests(Append(qa, QARecord(qid, Head(tests))), NextQueryId(qid), Tail(tests))

\* the loader has run: the first benchmark file held `tests`, the others no
\* entry.  The QA list has as many records as the sampled range, or one less.
Init ==
    /\ pc = "sampling"
    /\ error = "none"
    /\ \E tests \in SeqsUpTo(TestEntries, RangeSize) :
         /\ Len(tests) >= RangeSize - 1
         /\ tests_read = tests
         /\ legalbench_rag_qa = LoadTests(<<>>, 1, tests)
         /\ query_id = Len(tests) + 1
    /\ b = NumBenchmarks + 1
    /\ file_open = FALSE
    /\ data = <<>>
    /\ e = 1
    /\ SamplingUnbound
    /\ LoopUnbound
    /\ CheckpointUnbound
    /\ RagasUnbound
    /\ CorpusUnbound
    /\ WriteUnbound
    /\ RngUnbound
    /\ FilesUnbound

Next ==
    \/ Sampling
    \/ SamplingIndexError
    \/ SimilaritySearch
    \/ SimilaritySearchFails
    \/ Generate
    \/ GenerateFails
    \/ Record
    \/ LoopExit
    \/ Checkpoint
    \/ Reload
    \/ Formatter
    \/ RagcheckerCheckpoint

Spec == Init /\ [][Next]_vars

----------------------------------------------------------------------------
(* The sampling cell and the RAG loop with the kernel's progress: a        *)
(* statement that can run does run.  Nothing makes an external call        *)
(* return: the actions of a call carry no fairness.                        *)

NextLoop ==
    \/ Sampling
    \/ SamplingIndexError
    \/ SimilaritySearch
    \/ SimilaritySearchFails
    \/ Generate
    \/ GenerateFails
    \/ Record
    \/ LoopExit

KernelStep == Sampling \/ SamplingIndexError \/ Record \/ LoopExit

SpecLoop == Init /\ [][NextLoop]_vars /\ WF_vars(KernelStep)

----------------------------------------------------------------------------
(* The notebook run top to bottom in one kernel from the sampling cell to  *)
(* the RAGAs reload, with the connections and the handles followed.  The   *)
(* build cell has run: its store is bound and holds its connection.        *)

InitFiles ==
    /\ pc = "sampling"
    /\ error = "none"
    /\ \E tests \in SeqsUpTo(TestEntries, RangeSize) :
         /\ Len(tests) >= RangeSize - 1
         /\ tests_read = tests
         /\ legalbench_rag_qa = LoadTests(<<>>, 1, tests)
         /\ query_id = Len(tests) + 1
    /\ b = NumBenchmarks + 1
    /\ file_open = FALSE
    /\ data = <<>>
    /\ e = 1
    /\ SamplingUnbound
    /\ LoopUnbound
    /\ CheckpointUnbound
    /\ RagasUnbound
    /\ CorpusUnbound
    /\ WriteUnbound
    /\ RngUnbound
    /\ connections = <<BuildConnection>>
    /\ store_connection = BuildConnection
    /\ handles = <<>>
    /\ accesses = <<>>

NextFiles ==
    \/ Sampling
    \/ SamplingIndexError
    \/ CreateConnection
    \/ BindVectorStore
    \/ StoreBound /\ SimilaritySearch
    \/ StoreBound /\ SimilaritySearchFails
    \/ StoreBound /\ Generate
    \/ StoreBound /\ GenerateFails
    \/ StoreBound /\ Record
    \/ StoreBound /\ LoopExit
    \/ CheckpointOpen
    \/ CheckpointDump
    \/ ReloadOpen
    \/ ReloadLoad
    \/ Formatter
    \/ RagcheckerCheckpointOpen
    \/ RagcheckerCheckpointDump
    \/ RagcheckerReadOpen
    \/ RagcheckerRead
    \/ RagasLoadOpen
    \/ RagasLoadLoad

SpecFiles == InitFiles /\ [][NextFiles]_vars

----------------------------------------------------------------------------
(* The RAGAs environment: a fresh kernel that finds a checkpoint on disk *)

\* the result lists the RAG loop can leave for a list of test entries that
\* were all sampled, in load order
ResultListsOf(tests) ==
    LET qa == LoadTests(<<>>, 1, tests)
    IN  { [k \in 1..Len(qa) |-> ResultRecord(qa[k], <<Doc1, Doc2>>, answers[k])] :
            answers \in [1..Len(qa) -> Responses] }

\* the checkpoints of at most MaxResults records
Checkpoints ==
    UNION { { DumpResults(SerializableResults(rl)) : rl \in ResultListsOf(tests) } :
            tests \in SeqsUpTo(TestEntries, MaxResults) }

InitRagas ==
    /\ pc = "ragas_load"
    /\ error = "none"
    /\ b = 1
    /\ file_open = FALSE
    /\ data = <<>>
    /\ e = 1
    /\ query_id = 1
    /\ legalbench_rag_qa = <<>>
    /\ tests_read = <<>>
    /\ SamplingUnbound
    /\ LoopUnbound
    /\ serializable_results = <<>>
    /\ results_file \in Checkpoints
    /\ json_results = <<>>
    /\ ragchecker_results = [results |-> <<>>]
    /\ ragchecker_file = NoFile
    /\ RagasUnbound
    /\ CorpusUnbound
    /\ WriteUnbound
    /\ RngUnbound
    /\ FilesUnbound

NextRagas ==
    \/ RagasLoad
    \/ BuildSample
    \/ BuildSampleIndexError
    \/ AwaitScore
    \/ ScoreFaithfulness
    \/ ScoreAnswerRelevance
    \/ ScoreContextRelevance
    \/ RagasAverage

SpecRagas == InitRagas /\ [][NextRagas]_vars

----------------------------------------------------------------------------
(* The two write cells, executed any number of times in any order: both    *)
(* frameworks have produced their metrics                                  *)

\* the averaged metrics the RAGAs loop can leave
AveragedMetrics ==
    [MetricLabels -> { FracDiv(<<s, 1>>, AverageDivisor) : s \in Scores }]

InitWrite ==
    /\ pc = "write"
    /\ error = "none"
    /\ b = 1
    /\ file_open = FALSE
    /\ data = <<>>
    /\ e = 1
    /\ query_id = 1
    /\ legalbench_rag_qa = <<>>
    /\ tests_read = <<>>
    /\ SamplingUnbound
    /\ LoopUnbound
    /\ CheckpointUnbound
    /\ ragas_i = 1
    /\ ragas_step = "sample"
    /\ sample = NoSample
    /\ metrics \in AveragedMetrics
    /\ scores = <<>>
    /\ augend = <<0, 1>>
    /\ outstanding = {}
    /\ rag_results \in RagResultsTexts
    /\ CorpusUnbound
    /\ framework_results_file = NoFile
    /\ blocks_written = <<>>
    /\ RngUnbound
    /\ FilesUnbound

NextWrite == RagcheckerWrite \/ RagasWrite

SpecWrite == InitWrite /\ [][NextWrite]_vars

----------------------------------------------------------------------------
(* The index build: corpus loader, chunking, vector store build *)

\* the names the cells before the sampling cell leave alone
RestUnbound ==
    /\ b = 1
    /\ file_open = FALSE
    /\ data = <<>>
    /\ e = 1
    /\ query_id = 1
    /\ legalbench_rag_qa = <<>>
    /\ tests_read = <<>>
    /\ SamplingUnbound
    /\ LoopUnbound
    /\ CheckpointUnbound
    /\ RagasUnbound
    /\ WriteUnbound
    /\ RngUnbound
    /\ FilesUnbound

InitBuild ==
    /\ pc = "corpus"
    /\ error = "none"
    /\ listing \in [1..NumDirs -> Listings]
    /\ folder_i = 1
    /\ file_i = 1
    /\ legalbench_rag_retrieval_docs = <<>>
    /\ legalbench_rag_chunks = <<>>
    /\ batch_i = 0
    /\ vector_index = <<>>
    /\ upserts = <<>>
    /\ rebuilds = 0
    /\ run_start = 0
    /\ RestUnbound

NextBuild ==
    \/ LoadFile
    \/ SkipFile
    \/ NextFolder
    \/ FinishCorpus
    \/ Chunking
    \/ AddTexts
    \/ AddTextsFails
    \/ FinishBuild

SpecBuild == InitBuild /\ [][NextBuild]_vars

----------------------------------------------------------------------------
(* The text splitter on its own: one document of any text of at most       *)
(* MaxDocLen characters, or two short documents                            *)

Alphabet == {"a", " ", "\n"}

Texts(n) == SeqsUpTo(Alphabet, n)

\* the Document of file `name` of the first directory
TextDoc(name, text) == Document(Directory(1), [name |-> name, content |-> text])

ChunkInputs ==
    { <<TextDoc(<<"a", ".", "t", "x", "t">>, t)>> : t \in Texts(MaxDocLen) }
    \cup { <<TextDoc(<<"a", ".", "t", "x", "t">>, t[1]),
             TextDoc(<<"b", ".", "t", "x", "t">>, t[2])>> :
           t \in Texts(ChunkSize - 1) \X Texts(ChunkSize - 1) }

InitChunk ==
    /\ pc = "chunking"
    /\ error = "none"
    /\ listing = <<>>
    /\ folder_i = 1
    /\ file_i = 1
    /\ legalbench_rag_retrieval_docs \in ChunkInputs
    /\ legalbench_rag_chunks = <<>>
    /\ batch_i = 0
    /\ vector_index = <<>>
    /\ upserts = <<>>
    /\ rebuilds = 0
    /\ run_start = 0
    /\ RestUnbound

NextChunk == Chunking

SpecChunk == InitChunk /\ [][NextChunk]_vars

----------------------------------------------------------------------------
(* The sampling cell executed several times in one kernel, whatever the    *)
(* generator was used for before                                           *)

InitSample ==
    /\ pc = "sampling"
    /\ error = "none"
    /\ \E tests \in SeqsUpTo(TestEntries, RangeSize) :
         /\ Len(tests) >= RangeSize - 1
         /\ tests_read = tests
         /\ legalbench_rag_qa = LoadTests(<<>>, 1, tests)
         /\ query_id = Len(tests) + 1
    /\ b = NumBenchmarks + 1
    /\ file_open = FALSE
    /\ data = <<>>
    /\ e = 1
    /\ SamplingUnbound
    /\ LoopUnbound
    /\ CheckpointUnbound
    /\ RagasUnbound
    /\ CorpusUnbound
    /\ WriteUnbound
    /\ rng \in RngStates
    /\ samples = <<>>
    /\ FilesUnbound

NextSample == SeededSampling \/ OtherRandomUse

SpecSample == InitSample /\ [][NextSample]_vars

----------------------------------------------------------------------------
(* The sampling cell alone, drawing fewer indices than the range holds.    *)
(* The QA list has as many records as the range, or one less or one more.  *)

InitDraw ==
    /\ pc = "sampling"
    /\ error = "none"
    /\ \E tests \in SeqsUpTo(TestEntries, DrawRange + 1) :
         /\ Len(tests) >= DrawRange - 1
         /\ tests_read = tests
         /\ legalbench_rag_qa = LoadTests(<<>>, 1, tests)
         /\ query_id = Len(tests) + 1
    /\ b = NumBenchmarks + 1
    /\ file_open = FALSE
    /\ data = <<>>
    /\ e = 1
    /\ SamplingUnbound
    /\ LoopUnbound
    /\ CheckpointUnbound
    /\ RagasUnbound
    /\ CorpusUnbound
    /\ WriteUnbound
    /\ RngUnbound
    /\ FilesUnbound

NextDraw == DrawSample \/ DrawSampleIndexError

SpecDraw == InitDraw /\ [][NextDraw]_vars

----------------------------------------------------------------------------
(* The build cell executed up to 1 + MaxRebuilds times over one chunk list *)

\* chunk lists of 0 to 6 chunks
RebuildDocs ==
    { <<>>,
      <<TextDoc(<<"b", ".", "t", "x", "t">>, <<"a", " ", "b">>)>>,
      <<TextDoc(<<"a", ".", "t", "x", "t">>, LongText)>>,
      <<TextDoc(<<"a", ".", "t", "x", "t">>, LongText),
        TextDoc(<<"b", ".", "t", "x", "t">>, <<"a", " ", "b">>)>>,
      <<TextDoc(<<"a", ".", "t", "x", "t">>, LongText),
        TextDoc(<<"b", ".", "t", "x", "t">>, LongText)>> }

InitRebuild ==
    /\ pc = "build"
    /\ error = "none"
    /\ listing = <<>>
    /\ folder_i = 1
    /\ file_i = 1
    /\ \E docs \in RebuildDocs :
         /\ legalbench_rag_retrieval_docs = docs
         /\ legalbench_rag_chunks = SplitDocuments(docs)
    /\ batch_i = 0
    /\ vector_index = <<>>
    /\ upserts = <<>>
    /\ rebuilds = 0
    /\ run_start = 0
    /\ RestUnbound

NextRebuild == AddTexts \/ AddTextsFails \/ FinishBuild \/ BuildAgain

SpecRebuild == InitRebuild /\ [][NextRebuild]_vars

----------------------------------------------------------------------------
(* Claims about the QA loader *)

\* the entries of tests_read that the loader has consumed so far
EntriesLoaded == Len(tests_read) - (IF file_open THEN Len(data) - (e - 1) ELSE 0)

\* C5: the k-th test entry in input order (files in path order, entries in
\* array order) becomes the k-th QA record and carries query_id k: the ids
\* are 1..N without gap or duplicate, and the counter is not reset between
\* benchmark files.
C5_QueryIdsSequential ==
    /\ Len(legalbench_rag_qa) = EntriesLoaded
    /\ query_id = Len(legalbench_rag_qa) + 1
    /\ \A k \in 1..Len(legalbench_rag_qa) :
         /\ legalbench_rag_qa[k].query_id = k
         /\ legalbench_rag_qa[k].query = tests_read[k].query
         /\ Len(legalbench_rag_qa[k].answers) = Len(tests_read[k].snippets)
    /\ pc = "loaded" => Len(legalbench_rag_qa) = Len(tests_read)

\* every benchmark file held MaxTests entries: the ids run on from one file
\* to the next
C5_Witness ==
    /\ pc = "loaded"
    /\ Len(legalbench_rag_qa) = NumBenchmarks * MaxTests
    /\ legalbench_rag_qa[Len(legalbench_rag_qa)].query_id = NumBenchmarks * MaxTests

----------------------------------------------------------------------------
(* Claims about the RAG loop *)

QStateSuccessor ==
    { <<"PENDING", "RETRIEVED">>, <<"RETRIEVED", "GENERATED">>,
      <<"GENERATED", "RECORDED">> }

\* the positions in `calls` of the calls of kind op that returned for query i
ReturnedCalls(op, i) ==
    {m \in 1..Len(calls) : calls[m] = Call(op, i, TRUE)}

\* one step moves a query to the next state of the chain or leaves it alone
C1_Step ==
    \A i \in 1..SampleSize :
        LET before == QState(i)
            after == QStateOf(i, results', loop_i', step')
        IN  before = after \/ <<before, after>> \in QStateSuccessor

\* the calls behind each state: the search has returned before the generator
\* is called, the generator has returned before the record is appended
C1_CallsBehindState ==
    \A i \in 1..SampleSize :
        /\ QState(i) = "PENDING" =>
              ReturnedCalls("similarity_search", i) = {} /\ ReturnedCalls("invoke", i) = {}
        /\ QState(i) = "RETRIEVED" =>
              Cardinality(ReturnedCalls("similarity_search", i)) = 1
              /\ ReturnedCalls("invoke", i) = {}
        /\ QState(i) \in {"GENERATED", "RECORDED"} =>
              /\ Cardinality(ReturnedCalls("similarity_search", i)) = 1
              /\ Cardinality(ReturnedCalls("invoke", i)) = 1
              /\ \A m \in ReturnedCalls("similarity_search", i) :
                   \A n \in ReturnedCalls("invoke", i) : m < n

\* C1: every sampled query goes PENDING -> RETRIEVED -> GENERATED -> RECORDED,
\* no state skipped, repeated or reversed; its similarity search returns
\* before its generator call is issued, and its record is appended only after
\* the generator has returned.
C1_StateOrder == [](C1_CallsBehindState) /\ [][C1_Step]_vars

\* the last sampled query has been recorded after both of its calls
C1_Witness ==
    /\ QState(SampleSize) = "RECORDED"
    /\ Len(calls) = 2 * SampleSize

\* C2: queries are processed one at a time in sample order: a query leaves
\* PENDING only when every query before it is RECORDED, at most one query is
\* RETRIEVED or GENERATED, calls are issued in sample order, and the results
\* list holds the records in the order of the sampled subset.
C2_OneAtATimeInSampleOrder ==
    /\ \A i, j \in 1..SampleSize :
         i < j /\ QState(j) # "PENDING" => QState(i) = "RECORDED"
    /\ Cardinality({i \in 1..SampleSize : QState(i) \in {"RETRIEVED", "GENERATED"}}) <= 1
    /\ \A m, n \in 1..Len(calls) : m < n => calls[m].i <= calls[n].i
    /\ \A m \in 1..Len(calls) : calls[m].i <= Len(results) + 1
    /\ Len(results) <= Len(legalbench_rag_subset)
    /\ \A k \in 1..Len(results) :
         /\ results[k].query_id = legalbench_rag_subset[k].query_id
         /\ results[k].query = legalbench_rag_subset[k].query
         /\ results[k].ground_truth_answer = legalbench_rag_subset[k].answers

\* the second query is being processed, the first is recorded, and the sample
\* order is not the load order
C2_Witness ==
    /\ QState(1) = "RECORDED"
    /\ QState(2) = "GENERATED"
    /\ legalbench_rag_subset[1].query_id > legalbench_rag_subset[2].query_id

LoopFailed == error \in {"similarity_search", "invoke"}

\* the run is stopped at the failing query
C3_Halted ==
    LoopFailed =>
        /\ pc = "aborted"
        /\ Len(results) = loop_i - 1
        /\ \A k \in 1..Len(results) :
             results[k].query_id = legalbench_rag_subset[k].query_id
        /\ QState(loop_i) # "RECORDED"
        /\ \A j \in 1..SampleSize : j > loop_i => QState(j) = "PENDING"
        /\ \A m \in 1..Len(calls) : calls[m].i <= loop_i
        /\ {m \in 1..Len(calls) : ~calls[m].ok} = {Len(calls)}
        /\ calls[Len(calls)].i = loop_i

\* and nothing of the loop moves afterwards
C3_FrozenStep ==
    LoopFailed =>
        /\ results' = results
        /\ loop_i' = loop_i
        /\ step' = step
        /\ calls' = calls

\* C3: if the retrieval or the generation call fails for the query at
\* position i, the loop halts there: no later query leaves PENDING, the
\* failed call is not issued again, and results holds exactly the records of
\* the queries before i.
C3_FailureHaltsLoop == [](C3_Halted) /\ [][C3_FrozenStep]_vars

\* the generator failed for the second query, after the first was recorded
C3_Witness ==
    /\ error = "invoke"
    /\ loop_i = 2
    /\ Len(results) = 1

\* C4: legalbench_rag_results.json is written only after the loop has
\* completed in full: whenever the file exists every sampled query is
\* RECORDED and no call has failed, and an aborted run leaves no file.
C4_CheckpointOnlyAfterFullLoop ==
    /\ results_file # NoFile =>
         /\ error = "none"
         /\ Len(results) = SampleSize
         /\ \A i \in 1..SampleSize : QState(i) = "RECORDED"
         /\ results_file = DumpResults(SerializableResults(results))
    /\ pc = "aborted" => results_file = NoFile
    /\ LoopFailed => results_file = NoFile

\* the file has been written
C4_Witness ==
    /\ results_file # NoFile
    /\ Len(results) = SampleSize

\* the loop is waiting for the call `op` of query i to return
WaitingFor(op, i) ==
    /\ pc = "rag_loop"
    /\ loop_i = i
    /\ i <= Len(legalbench_rag_subset)
    /\ step = (IF op = "similarity_search" THEN "search" ELSE "invoke")

\* the call `op` of query i has come back, with a value or an exception
CameBack(op, i) == \E m \in 1..Len(calls) : calls[m].op = op /\ calls[m].i = i

\* no call is issued twice for a query
C17_OneCallPerQuery ==
    \A i \in 1..SampleSize :
        /\ Cardinality(ReturnedCalls("similarity_search", i)) <= 1
        /\ Cardinality(ReturnedCalls("invoke", i)) <= 1

\* the loop leaves a query only for the next one, after one retrieval and
\* one generation call have returned for it; it leaves a call only by the
\* call coming back
C17_Step ==
    /\ loop_i' # loop_i =>
         /\ loop_i' = loop_i + 1
         /\ Cardinality(ReturnedCalls("similarity_search", loop_i)) = 1
         /\ Cardinality(ReturnedCalls("invoke", loop_i)) = 1
    /\ \A op \in {"similarity_search", "invoke"} :
         WaitingFor(op, loop_i) /\ (step' # step \/ pc' # pc) =>
             /\ Len(calls') = Len(calls) + 1
             /\ calls'[Len(calls')].op = op
             /\ calls'[Len(calls')].i = loop_i

\* the loop has ended with every sampled query recorded
C17_AllRecorded ==
    /\ pc = "checkpoint"
    /\ Len(results) = SampleSize
    /\ \A i \in 1..SampleSize :
         /\ QState(i) = "RECORDED"
         /\ Cardinality(ReturnedCalls("similarity_search", i)) = 1
         /\ Cardinality(ReturnedCalls("invoke", i)) = 1
    /\ Len(calls) = 2 * SampleSize

\* C17: the calls are blocking, without timeout or cancellation.  If every
\* retrieval and generation call that is waited for returns, and returns
\* without exception, the loop ends with all sampled queries RECORDED after
\* exactly one retrieval and one generation call per query.  A loop waiting
\* for a call stays at that call of that query until the call comes back: if
\* it never does, the loop waits forever and no later query leaves PENDING.
C17_BlockingCalls ==
    /\ [](C17_OneCallPerQuery)
    /\ [][C17_Step]_vars
    /\ \A i \in 1..SampleSize : \A op \in {"similarity_search", "invoke"} :
         [](WaitingFor(op, i) =>
              \/ [](WaitingFor(op, i)
                    /\ \A j \in 1..SampleSize : j > i => QState(j) = "PENDING")
              \/ <>(CameBack(op, i)))
    /\ (/\ WF_vars(SimilaritySearch)
        /\ WF_vars(Generate)
        /\ [](error = "none"))
       => <>(C17_AllRecorded)

\* the loop has ended after every call returned
C17_Witness ==
    /\ C17_AllRecorded
    /\ error = "none"
    /\ \A m \in 1..Len(calls) : calls[m].ok

\* the prompt up to the end of the question
PromptStart(question) == TemplateHead \o question \o TemplateMiddle

\* C22: every record of `results` holds the query_id, query and answers of
\* the QA record of its iteration, the chunks the similarity search returned
\* for that query (at most k of them, in the order returned) and the content
\* the generator returned for the prompt that was formatted from that query:
\* the (2k-1)-th and the 2k-th returned call are those of the k-th record.
C22_RecordConsistent ==
    \A k \in 1..Len(results) :
        /\ k <= Len(legalbench_rag_subset)
        /\ results[k].query_id = legalbench_rag_subset[k].query_id
        /\ results[k].query = legalbench_rag_subset[k].query
        /\ results[k].ground_truth_answer = legalbench_rag_subset[k].answers
        /\ 2 * k <= Len(exchanges)
        /\ exchanges[2 * k - 1] =
             Exchange("similarity_search", results[k].query, results[k].retrieved_chunks)
        /\ Len(results[k].retrieved_chunks) <= TopK
        /\ exchanges[2 * k].op = "invoke"
        /\ exchanges[2 * k].value = results[k].generated_answer
        /\ Len(exchanges[2 * k].arg) >= Len(PromptStart(results[k].query))
        /\ SubSeq(exchanges[2 * k].arg, 1, Len(PromptStart(results[k].query)))
             = PromptStart(results[k].query)

\* two records of different queries, with the chunks in different orders and
\* different answers
C22_Witness ==
    /\ Len(results) >= 2
    /\ results[1].query # results[2].query
    /\ results[1].retrieved_chunks # results[2].retrieved_chunks
    /\ results[1].generated_answer # results[2].generated_answer

\* where the text of chunk j begins in a context built from `chunks`: after
\* the texts of the chunks before it and their separators
RECURSIVE ContextOffset(_, _)
ContextOffset(chunks, j) ==
    IF j = 1 THEN 0
    ELSE ContextOffset(chunks, j - 1) + Len(chunks[j - 1].page_content) + 2

\* `context` holds the text of every chunk in order, each followed by a
\* blank line, and nothing else
IsContextOf(context, chunks) ==
    /\ Len(context) = ContextOffset(chunks, Len(chunks) + 1)
    /\ \A j \in 1..Len(chunks) :
         LET from == ContextOffset(chunks, j)
             text == chunks[j].page_content
         IN  /\ SubSeq(context, from + 1, from + Len(text)) = text
             /\ SubSeq(context, from + Len(text) + 1, from + Len(text) + 2)
                  = <<"\n", "\n">>

\* the context inside the prompt of the k-th generator call
ContextSent(k) ==
    SubSeq(exchanges[2 * k].arg,
           Len(PromptStart(exchanges[2 * k - 1].arg)) + 1,
           Len(exchanges[2 * k].arg) - Len(TemplateTail))

Recorded ==
    {i \in 1..SampleSize :
        /\ ReturnedCalls("similarity_search", i) # {}
        /\ ReturnedCalls("invoke", i) # {}
        /\ loop_i > i}

\* a step leaves `results` alone or adds one record at its end, and it adds
\* one exactly when an iteration ends
C24_Step ==
    /\ \/ results' = results
       \/ /\ Len(results') = Len(results) + 1
          /\ SubSeq(results', 1, Len(results)) = results
    /\ loop_i' # loop_i <=> Len(results') = Len(results) + 1

\* C24: `results` is append-only during the loop: an iteration adds exactly
\* one record at the end, no record already in the list is changed, moved
\* or removed, and the list is as long as the number of queries recorded.
C24_ResultsAppendOnly ==
    /\ [][C24_Step]_vars
    /\ [](Len(results) = Cardinality(Recorded))
    /\ [](Len(results) = Cardinality({i \in 1..SampleSize : QState(i) = "RECORDED"}))

\* the second record has been appended behind the first
C24_Witness ==
    /\ Len(results) = 2
    /\ results[1].query_id = legalbench_rag_subset[1].query_id
    /\ results[2].query_id = legalbench_rag_subset[2].query_id
    /\ pc = "rag_loop"

----------------------------------------------------------------------------
(* Claims about the checkpoint and the RAGChecker formatter *)

\* the cells after the reload of the checkpoint
AfterReload == pc \in {"formatter", "ragchecker_checkpoint", "done"}
\* the cells after the formatter
AfterFormatter == pc \in {"ragchecker_checkpoint", "done"}

ResultKeys ==
    { KeyText("query_id"), KeyText("query"), KeyText("ground_truth_answer"),
      KeyText("generated_answer"), KeyText("retrieved_chunks") }

\* the positions of json_results whose record has a ground-truth answer
WithGroundTruth ==
    {k \in 1..Len(json_results) : Len(Get(json_results[k], "ground_truth_answer")) > 0}

\* the position in json_results of the m-th record that has a ground-truth
\* answer
SourceOf(m) ==
    CHOOSE k \in WithGroundTruth :
        Cardinality({k2 \in WithGroundTruth : k2 <= k}) = m

PairwiseDistinct(s) == \A i, j \in 1..Len(s) : i # j => s[i] # s[j]

\* C6: query_id is stable through the pipeline: the id of a Result Record, of
\* its checkpoint record and (as decimal string) of its checker-format record
\* is the id the query got at load time, its position in input order; the
\* QA records keep their ids; no stage holds two records with the same id.
C6_QueryIdStable ==
    /\ \A k \in 1..Len(legalbench_rag_qa) : legalbench_rag_qa[k].query_id = k
    /\ \A k \in 1..Len(legalbench_rag_subset) :
         legalbench_rag_subset[k].query_id = sampled_indices[k] + 1
    /\ \A k \in 1..Len(results) :
         /\ results[k].query_id = sampled_indices[k] + 1
         /\ results[k].query = legalbench_rag_qa[results[k].query_id].query
    /\ PairwiseDistinct([k \in 1..Len(results) |-> results[k].query_id])
    /\ AfterReload =>
         /\ Len(json_results) = Len(results)
         /\ \A k \in 1..Len(json_results) :
              Get(json_results[k], "query_id") = sampled_indices[k] + 1
    /\ AfterFormatter =>
         /\ \A m \in 1..Len(ragchecker_results.results) :
              \E k \in 1..Len(results) :
                  /\ ragchecker_results.results[m].query_id = DecStr(sampled_indices[k] + 1)
                  /\ ragchecker_results.results[m].query = results[k].query
         /\ PairwiseDistinct([m \in 1..Len(ragchecker_results.results) |->
                                 ragchecker_results.results[m].query_id])

\* the pipeline has run to its end on a sample whose order is not the load
\* order, and every sampled record reached the checker format
C6_Witness ==
    /\ pc = "done"
    /\ Len(ragchecker_results.results) = SampleSize
    /\ sampled_indices[1] > sampled_indices[2]

\* C7: reading legalbench_rag_results.json back gives a list of the same
\* length and order as `results`, each record with the same query_id, query,
\* ground_truth_answer list and generated_answer, and with the page_content
\* of the in-memory chunks, in order, as its retrieved_chunks.
C7_CheckpointRoundTrip ==
    AfterReload =>
        /\ Len(json_results) = Len(results)
        /\ \A k \in 1..Len(json_results) :
             /\ DOMAIN json_results[k] = ResultKeys
             /\ Get(json_results[k], "query_id") = results[k].query_id
             /\ Get(json_results[k], "query") = results[k].query
             /\ Get(json_results[k], "ground_truth_answer") = results[k].ground_truth_answer
             /\ Get(json_results[k], "generated_answer") = results[k].generated_answer
             /\ Len(Get(json_results[k], "retrieved_chunks")) = Len(results[k].retrieved_chunks)
             /\ \A j \in 1..Len(results[k].retrieved_chunks) :
                  /\ DOMAIN Get(json_results[k], "retrieved_chunks")[j] = {KeyText("page_content")}
                  /\ Get(Get(json_results[k], "retrieved_chunks")[j], "page_content")
                        = results[k].retrieved_chunks[j].page_content

\* a checkpoint was read back that holds an answer with a quote and a
\* backslash, a ground truth of two answers (each with a line break) and one
\* of none
C7_Witness ==
    /\ AfterReload
    /\ \E k \in 1..Len(results) : results[k].generated_answer = Response2
    /\ \E k \in 1..Len(results) : Len(results[k].ground_truth_answer) = 2
    /\ \E k \in 1..Len(results) : Len(results[k].ground_truth_answer) = 0

\* C8 as stated: the checker-format `results` array has exactly one entry per
\* input Result Record, in input order.
C8_OneEntryPerRecord ==
    AfterFormatter =>
        /\ Len(ragchecker_results.results) = Len(json_results)
        /\ \A k \in 1..Len(ragchecker_results.results) :
             ragchecker_results.results[k].query_id = DecStr(Get(json_results[k], "query_id"))

\* C8: the checker-format `results` array has exactly one entry per input
\* Result Record whose ground_truth_answer list is not empty, in input order;
\* a record with an empty ground-truth list has no entry.
C8_OneEntryPerRecordWithGroundTruth ==
    AfterFormatter =>
        /\ Len(ragchecker_results.results) = Cardinality(WithGroundTruth)
        /\ \A m \in 1..Len(ragchecker_results.results) :
             /\ ragchecker_results.results[m].query_id
                   = DecStr(Get(json_results[SourceOf(m)], "query_id"))
             /\ ragchecker_results.results[m].query = Get(json_results[SourceOf(m)], "query")

\* the formatter has dropped a record without ground truth that stood before
\* a record it kept
C8_Witness ==
    /\ AfterFormatter
    /\ Len(json_results) = SampleSize
    /\ Len(ragchecker_results.results) = SampleSize - 1
    /\ 1 \notin WithGroundTruth

\* C9: every record the formatter emits has the first element of its source
\* record's ground_truth_answer as gt_answer (later elements are dropped), the
\* source's generated_answer as response, its query as query, and the texts
\* of its retrieved_chunks, same order and number, as retrieved_context.
C9_FormattedFields ==
    AfterFormatter =>
        \A m \in 1..Len(ragchecker_results.results) :
            LET out == ragchecker_results.results[m]
                src == json_results[SourceOf(m)]
            IN  /\ DOMAIN out = {"query_id", "query", "gt_answer", "response",
                                 "retrieved_context"}
                /\ out.gt_answer = Get(src, "ground_truth_answer")[1]
                /\ out.response = Get(src, "generated_answer")
                /\ out.query = Get(src, "query")
                /\ Len(out.retrieved_context) = Len(Get(src, "retrieved_chunks"))
                /\ \A j \in 1..Len(out.retrieved_context) :
                     /\ DOMAIN out.retrieved_context[j] = {"text"}
                     /\ out.retrieved_context[j].text
                           = Get(Get(src, "retrieved_chunks")[j], "page_content")

\* a record with two different ground-truth answers and two retrieved chunks
\* was formatted
C9_Witness ==
    /\ AfterFormatter
    /\ \E m \in 1..Len(ragchecker_results.results) :
         /\ Len(Get(json_results[SourceOf(m)], "ground_truth_answer")) = 2
         /\ Get(json_results[SourceOf(m)], "ground_truth_answer")[1]
               # Get(json_results[SourceOf(m)], "ground_truth_answer")[2]
         /\ Len(ragchecker_results.results[m].retrieved_context) = 2

----------------------------------------------------------------------------
(* Claims about the RAGAs loop *)

RECURSIVE SumScores(_, _)
\* the sum of the scores of one metric over the first n instances
SumScores(label, n) == IF n = 0 THEN 0 ELSE scores[n][label] + SumScores(label, n - 1)

\* C10: after the scoring loop has finished over a checkpoint of n >= 1
\* records, each entry of the metric accumulator is the sum of that metric's
\* n scores divided by n.
C10_AverageOverRecords ==
    pc = "ragas_done" /\ Len(json_results) >= 1 =>
        \A label \in MetricLabels :
            FracIs(metrics[label], SumScores(label, Len(scores)), Len(json_results))

\* the metrics of the current record whose call has not returned yet, once
\* the record has its entry in `scores`
NotYetScored ==
    IF ragas_step \in {"answer_relevance", "await answer_relevance"}
    THEN {"answer_relevance", "context_relevance"}
    ELSE IF ragas_step \in {"context_relevance", "await context_relevance"}
    THEN {"context_relevance"}
    ELSE {}

\* C18: the scoring calls are awaited one at a time: at most one call is
\* outstanding, and it is the call of the statement the cell is suspended
\* at; each returned score is added to its total once: while the loop runs
\* each total is the sum of the scores returned for its metric, and after
\* the i-th record each total is the sum over records 1..i.
C18_ScoresAwaitedOneAtATime ==
    pc = "ragas_loop" =>
        /\ Cardinality(outstanding) <= 1
        /\ \A call \in outstanding :
             /\ call.i = ragas_i
             /\ ragas_step = AwaitStep(call.label)
        /\ ragas_step \in MetricLabels \cup {"sample"} => outstanding = {}
        /\ \A label \in MetricLabels :
             FracIs(metrics[label], SumScores(label, Len(scores)), 1)
        /\ Len(scores) = IF NotYetScored = {} THEN ragas_i - 1 ELSE ragas_i
        /\ \A label \in NotYetScored : scores[ragas_i][label] = 0

\* the third call of the second record is outstanding, after a first record
\* whose scores were all 1
C18_Witness ==
    /\ pc = "ragas_loop"
    /\ ragas_i = 2
    /\ outstanding = {[label |-> "context_relevance", i |-> 2]}
    /\ \A label \in MetricLabels : scores[1][label] = 1
    /\ scores[2]["answer_relevance"] = 1

\* the scoring loop has stopped at the first record without ground truth:
\* the records before it are scored and summed, not averaged; the formatter
\* run over the same checkpoint leaves that record out and formats the rest
C25_Stopped ==
    /\ error = "IndexError" =>
         /\ pc = "aborted"
         /\ ragas_i \in 1..Len(json_results)
         /\ ragas_i \notin WithGroundTruth
         /\ 1..(ragas_i - 1) \subseteq WithGroundTruth
         /\ Len(scores) = ragas_i - 1
         /\ outstanding = {}
         /\ \A label \in MetricLabels :
              /\ metrics[label][2] = 1
              /\ metrics[label][1] = SumScores(label, ragas_i - 1)
         /\ Len(RagcheckerResults(json_results).results) = Cardinality(WithGroundTruth)
         /\ \A m \in 1..Len(RagcheckerResults(json_results).results) :
              RagcheckerResults(json_results).results[m].query_id
                  # FormattedQueryId(json_results[ragas_i])
    /\ pc = "ragas_done" => WithGroundTruth = 1..Len(json_results)
    /\ pc = "ragas_loop" => 1..(ragas_i - 1) \subseteq WithGroundTruth

\* and nothing of the loop moves afterwards
C25_Frozen ==
    error = "IndexError" =>
        /\ metrics' = metrics
        /\ scores' = scores
        /\ ragas_i' = ragas_i
        /\ ragas_step' = ragas_step

\* C25: a record with an empty ground_truth_answer list stops the RAGAs
\* loop at that record: the records after it are not scored, the division
\* is not done and `metrics` keeps the running sums of the records before
\* it; the RAGChecker formatter takes the same record without error.
C25_EmptyGroundTruthStopsScoring == [](C25_Stopped) /\ [][C25_Frozen]_vars

\* the loop stopped at the second record after the first was scored 1 on
\* every metric
C25_Witness ==
    /\ error = "IndexError"
    /\ ragas_i = 2
    /\ \A label \in MetricLabels : metrics[label] = <<1, 1>>

----------------------------------------------------------------------------
(* Claims about sampling *)

\* C15: every execution of the sampling cell (seed 100, the same range and
\* sample size) yields the same indices in the same order, and so the same
\* subset of the same QA list, whatever state earlier use left the generator
\* in.
C15_SamplingDeterministic ==
    /\ \A i, j \in 1..Len(samples) :
         /\ samples[i].indices = samples[j].indices
         /\ samples[i].subset = samples[j].subset
    /\ samples # <<>> =>
         /\ sampled_indices = samples[Len(samples)].indices
         /\ legalbench_rag_subset = samples[Len(samples)].subset

\* the cell has been executed from two different generator states, and the
\* subset was filled
C15_Witness ==
    /\ \E i, j \in 1..Len(samples) : samples[i].before # samples[j].before
    /\ Len(legalbench_rag_subset) = SampleSize
    /\ pc = "rag_loop"

\* C26: once the sampling cell has drawn, the sampled indices are as many
\* as the sample size, pairwise distinct and within the range;
\* available_indices is their complement in the range: disjoint from the
\* sample, range size minus sample size elements, and together with the
\* sample the whole range.  When the QA list has at least as many records
\* as the range, the subset holds the QA record at each sampled index, in
\* sample order, and no record twice.
C26_SampleAndComplement ==
    pc # "sampling" =>
        /\ Len(sampled_indices) = DrawSize
        /\ \A i \in 1..Len(sampled_indices) : sampled_indices[i] \in 0..(DrawRange - 1)
        /\ PairwiseDistinct(sampled_indices)
        /\ available_indices \cap Range(sampled_indices) = {}
        /\ Cardinality(available_indices) = DrawRange - DrawSize
        /\ available_indices \cup Range(sampled_indices) = 0..(DrawRange - 1)
        /\ Len(legalbench_rag_qa) >= DrawRange =>
             /\ Len(legalbench_rag_subset) = Len(sampled_indices)
             /\ \A i \in 1..Len(sampled_indices) :
                  /\ legalbench_rag_subset[i] = legalbench_rag_qa[sampled_indices[i] + 1]
                  /\ legalbench_rag_subset[i].query_id = sampled_indices[i] + 1
             /\ PairwiseDistinct(legalbench_rag_subset)

\* the cell has drawn, out of load order, from a QA list longer than the
\* range, and indices remain available
C26_Witness ==
    /\ pc = "rag_loop"
    /\ Len(legalbench_rag_qa) > DrawRange
    /\ available_indices # {}
    /\ sampled_indices[1] > sampled_indices[2]
    /\ Len(legalbench_rag_subset) = DrawSize

----------------------------------------------------------------------------
(* Claims about the framework results file *)

\* C11: after any sequence of executions of the RAGChecker write cell and
\* the RAGAs write cell, legalbench_rag_framework_results.txt holds every
\* block written so far, in the order written: no write removes or
\* overwrites an earlier block.
C11_BlocksAppended ==
    blocks_written # <<>> => framework_results_file = Concat(blocks_written)

----------------------------------------------------------------------------
(* Claims about the corpus loader *)

\* the entries <<directory, position>> of the listings whose name ends in
\* ".txt"
TextFileEntries ==
    { en \in (1..NumDirs) \X (1..MaxFiles) :
        /\ en[2] <= Len(listing[en[1]])
        /\ LET name == listing[en[1]][en[2]].name
               n == Len(name)
           IN  /\ n >= 4
               /\ name[n - 3] = "." /\ name[n - 2] = "t"
               /\ name[n - 1] = "x" /\ name[n] = "t" }

\* the Documents made from entry en
DocumentsOfEntry(en) ==
    { d \in 1..Len(legalbench_rag_retrieval_docs) :
        /\ legalbench_rag_retrieval_docs[d].metadata.source_dataset = Directory(en[1])
        /\ legalbench_rag_retrieval_docs[d].metadata.filename
               = listing[en[1]][en[2]].name
        /\ legalbench_rag_retrieval_docs[d].page_content
               = listing[en[1]][en[2]].content }

\* C14: after the Corpus Loader has run, the number of Documents is the
\* number of entries whose name ends in ".txt" over all directories: each
\* such file yields exactly one Document, with source_dataset its directory
\* path, filename its name and its content as text, and every Document comes
\* from such a file (other files yield none).
C14_OneDocumentPerTextFile ==
    pc # "corpus" =>
        /\ Len(legalbench_rag_retrieval_docs) = Cardinality(TextFileEntries)
        /\ \A en \in TextFileEntries : Cardinality(DocumentsOfEntry(en)) = 1
        /\ \A d \in 1..Len(legalbench_rag_retrieval_docs) :
               \E en \in TextFileEntries : d \in DocumentsOfEntry(en)

\* the loader has run over directories that hold text files and other
\* files, the same file name in two directories
C14_Witness ==
    /\ pc = "chunking"
    /\ Len(legalbench_rag_retrieval_docs) = 2
    /\ legalbench_rag_retrieval_docs[1].metadata.filename
           = legalbench_rag_retrieval_docs[2].metadata.filename
    /\ \E k \in 1..NumDirs : \E j \in 1..Len(listing[k]) :
           <<k, j>> \notin TextFileEntries

----------------------------------------------------------------------------
(* Claims about the vector store build *)

\* C16: every row of the vector index is stored with the metadata of the
\* chunk it was built from (source_dataset, filename, start_index), so that
\* a stored chunk leads back to its file.
C16_MetadataStored ==
    /\ Len(vector_index) <= Len(legalbench_rag_chunks)
    /\ \A r \in 1..Len(vector_index) :
         /\ vector_index[r].text = legalbench_rag_chunks[r].page_content
         /\ vector_index[r].metadata = legalbench_rag_chunks[r].metadata

----------------------------------------------------------------------------
(* Claims about chunking *)

\* ceil(a / d) for d > 0
CeilDiv(a, d) == -((-a) \div d)

\* the text has no whitespace, so none of the splitter's separators
NoWhitespace(text) == \A k \in 1..Len(text) : ~IsSpace(text[k])

\* the text is empty or whitespace only
OnlyWhitespace(text) == \A k \in 1..Len(text) : IsSpace(text[k])

\* the chunks that carry the metadata of document d, in list order
ChunksWithMetadataOf(d) ==
    LET at == {k \in 1..Len(legalbench_rag_chunks) :
                  /\ legalbench_rag_chunks[k].metadata.source_dataset
                         = legalbench_rag_retrieval_docs[d].metadata.source_dataset
                  /\ legalbench_rag_chunks[k].metadata.filename
                         = legalbench_rag_retrieval_docs[d].metadata.filename}
    IN  [r \in 1..Cardinality(at) |->
            legalbench_rag_chunks[CHOOSE k \in at : Cardinality({k2 \in at : k2 <= k}) = r]]

Chunked == pc = "build"

\* C12 as claimed: a Document of length L yields ceil((L - overlap) /
\* (window - overlap)) chunks, and exactly 1 chunk when L < window, the
\* empty document included.  (Where the two disagree, for L <= overlap,
\* the second is taken.)
C12_ChunkCount ==
    Chunked =>
        \A d \in 1..Len(legalbench_rag_retrieval_docs) :
            LET L == Len(legalbench_rag_retrieval_docs[d].page_content)
                n == Len(ChunksWithMetadataOf(d))
            IN  /\ L >= ChunkSize => n = CeilDiv(L - ChunkOverlap, ChunkSize - ChunkOverlap)
                /\ L < ChunkSize => n = 1

\* C12, amended: a Document without whitespace of length L >= 1 yields 1
\* chunk when L <= window and ceil((L - overlap) / (window - overlap))
\* chunks when L > window; a Document of at most `window` characters that
\* has a character other than whitespace yields exactly 1 chunk; an empty
\* or whitespace-only Document yields no chunk; no chunk is empty or longer
\* than the window.
C12_ChunkCountWithoutWhitespace ==
    Chunked =>
        /\ \A d \in 1..Len(legalbench_rag_retrieval_docs) :
            LET text == legalbench_rag_retrieval_docs[d].page_content
                L == Len(text)
                n == Len(ChunksWithMetadataOf(d))
            IN  /\ NoWhitespace(text) /\ L > ChunkSize =>
                       n = CeilDiv(L - ChunkOverlap, ChunkSize - ChunkOverlap)
                /\ ~OnlyWhitespace(text) /\ L <= ChunkSize => n = 1
                /\ OnlyWhitespace(text) => n = 0
        /\ \A k \in 1..Len(legalbench_rag_chunks) :
               /\ Len(legalbench_rag_chunks[k].page_content) >= 1
               /\ Len(legalbench_rag_chunks[k].page_content) <= ChunkSize

\* a document without whitespace that is longer than two windows less their
\* overlap has been cut into three chunks
C12_Witness ==
    /\ Chunked
    /\ Len(legalbench_rag_retrieval_docs) = 1
    /\ NoWhitespace(legalbench_rag_retrieval_docs[1].page_content)
    /\ Len(legalbench_rag_retrieval_docs[1].page_content) > 2 * ChunkSize - ChunkOverlap
    /\ Len(legalbench_rag_chunks) = 3

\* the position in the document list of the document whose metadata chunk
\* k carries
DocOfChunk(k) ==
    CHOOSE d \in 1..Len(legalbench_rag_retrieval_docs) :
        /\ legalbench_rag_retrieval_docs[d].metadata.source_dataset
               = legalbench_rag_chunks[k].metadata.source_dataset
        /\ legalbench_rag_retrieval_docs[d].metadata.filename
               = legalbench_rag_chunks[k].metadata.filename

\* chunks of different documents are not merged and come in document order:
\* every chunk is a piece of the document whose metadata it carries, found
\* at its start_index, and the documents of the chunks do not go back
ChunksInDocumentOrder ==
    /\ \A k \in 1..Len(legalbench_rag_chunks) :
           LET chunk == legalbench_rag_chunks[k]
               text == legalbench_rag_retrieval_docs[DocOfChunk(k)].page_content
               start == chunk.metadata.start_index
           IN  /\ start >= 0
               /\ SubSeq(text, start + 1, start + Len(chunk.page_content))
                      = chunk.page_content
    /\ \A k \in 1..(Len(legalbench_rag_chunks) - 1) : DocOfChunk(k) <= DocOfChunk(k + 1)

\* C13 as claimed: consecutive chunks of a Document overlap by exactly
\* `overlap` characters and the i-th chunk (from 0) starts at offset
\* (window - overlap) * i, which its start_index records; chunks of
\* different documents are not merged and come in document order.
C13_ChunkOffsets ==
    Chunked =>
        /\ \A d \in 1..Len(legalbench_rag_retrieval_docs) :
               LET cs == ChunksWithMetadataOf(d)
               IN  /\ \A i \in 1..Len(cs) :
                          cs[i].metadata.start_index = (ChunkSize - ChunkOverlap) * (i - 1)
                   /\ \A i \in 1..(Len(cs) - 1) :
                          cs[i].metadata.start_index + Len(cs[i].page_content)
                              - cs[i + 1].metadata.start_index = ChunkOverlap
        /\ ChunksInDocumentOrder

\* C13, amended: for a Document without whitespace, consecutive chunks
\* overlap by exactly `overlap` characters and the i-th chunk (from 0)
\* starts at offset (window - overlap) * i, which its start_index records.
\* For any Document, the start_index of a chunk is an offset at which the
\* chunk's text occurs in the Document, and consecutive chunks overlap by at
\* most `overlap` characters.  Chunks of different documents are not merged
\* and come in document order.
C13_ChunkOffsetsWithoutWhitespace ==
    Chunked =>
        /\ \A d \in 1..Len(legalbench_rag_retrieval_docs) :
               LET cs == ChunksWithMetadataOf(d)
                   text == legalbench_rag_retrieval_docs[d].page_content
               IN  /\ NoWhitespace(text) =>
                          /\ \A i \in 1..Len(cs) :
                                 cs[i].metadata.start_index
                                     = (ChunkSize - ChunkOverlap) * (i - 1)
                          /\ \A i \in 1..(Len(cs) - 1) :
                                 cs[i].metadata.start_index + Len(cs[i].page_content)
                                     - cs[i + 1].metadata.start_index = ChunkOverlap
                   /\ \A i \in 1..(Len(cs) - 1) :
                          cs[i].metadata.start_index + Len(cs[i].page_content)
                              - cs[i + 1].metadata.start_index <= ChunkOverlap
        /\ ChunksInDocumentOrder

\* the two documents of the scenario, scaled to the window: one without
\* whitespace of a window and a half, cut at offsets 0 and window - overlap;
\* and two short documents, one chunk each at offset 0
C13_Witness ==
    /\ Chunked
    /\ \/ /\ Len(legalbench_rag_retrieval_docs) = 1
          /\ NoWhitespace(legalbench_rag_retrieval_docs[1].page_content)
          /\ 2 * Len(legalbench_rag_retrieval_docs[1].page_content) = 3 * ChunkSize
          /\ Len(legalbench_rag_chunks) = 2
          /\ legalbench_rag_chunks[2].metadata.start_index = ChunkSize - ChunkOverlap
       \/ /\ Len(legalbench_rag_retrieval_docs) = 2
          /\ Len(legalbench_rag_chunks) = 2
          /\ DocOfChunk(1) = 1
          /\ DocOfChunk(2) = 2

----------------------------------------------------------------------------
(* Claims about the batched upsert *)

\* the chunks the c-th add_texts call should carry
BatchOf(c) == Slice(legalbench_rag_chunks, (c - 1) * BatchSize, c * BatchSize)

\* C20: the build loop issues ceil(N / batch_size) add_texts calls for N
\* chunks (none for N = 0); every call carries between 1 and batch_size
\* chunks; the batches are consecutive slices of the chunk list in order, so
\* that every chunk is sent exactly once; the texts and the metadata of a
\* call have the same length and position j of both comes from one chunk.
C20_BatchesCoverChunks ==
    pc \in {"build", "built"} =>
        /\ batch_i = Len(upserts) * BatchSize
        /\ Len(upserts) <= CeilDiv(Len(legalbench_rag_chunks), BatchSize)
        /\ pc = "built" =>
              Len(upserts) = CeilDiv(Len(legalbench_rag_chunks), BatchSize)
        /\ \A c \in 1..Len(upserts) :
              /\ Len(upserts[c].texts) \in 1..BatchSize
              /\ Len(upserts[c].metdata) = Len(upserts[c].texts)
              /\ Len(upserts[c].texts) = Len(BatchOf(c))
              /\ \A j \in 1..Len(upserts[c].texts) :
                    /\ upserts[c].texts[j] = BatchOf(c)[j].page_content
                    /\ upserts[c].metdata[j] = BatchOf(c)[j].metadata

\* the loop has ended after a full batch and a shorter last one
C20_Witness ==
    /\ pc = "built"
    /\ Len(upserts) >= 2
    /\ Len(upserts[1].texts) = BatchSize
    /\ Len(upserts[Len(upserts)].texts) < BatchSize

----------------------------------------------------------------------------
(* Claims about connections and file handles *)

\* no two open handles are on the same file
NoTwoHandlesOnAFile ==
    \A m, n \in 1..Len(handles) : m # n => handles[m].file # handles[n].file

\* the number of events `ev` of `file` among the first k accesses
RECURSIVE CountEvents(_, _, _)
CountEvents(file, ev, k) ==
    IF k = 0 THEN 0
    ELSE CountEvents(file, ev, k - 1) + (IF accesses[k] = Event(file, ev) THEN 1 ELSE 0)

\* every read of a file is opened after a write of it, and after the handle
\* of every write opened before has been closed
ReadsAfterClosedWrites ==
    \A k \in 1..Len(accesses) :
        accesses[k].ev = "open r" =>
            /\ CountEvents(accesses[k].file, "close w", k) >= 1
            /\ CountEvents(accesses[k].file, "open w", k) =
               CountEvents(accesses[k].file, "close w", k)

\* C19 as stated: no two handles and no two vector-store connections are
\* ever open on the same file at once, and every read of
\* legalbench_rag_results.json or legalbench_rag_ragchecker.json starts
\* after the write of that file has completed and closed its handle.
C19_SingleAccess ==
    /\ NoTwoHandlesOnAFile
    /\ Len(connections) <= 1
    /\ ReadsAfterClosedWrites

\* C19, amended: no two handles are ever open on the same JSON file and a
\* read starts after the write has closed its handle; legalbench_rag.db has
\* the connection of the build cell still open when the loop cell opens its
\* own: two connections are open from line 455 on, until the store of the
\* build cell is finalized, and never more than two; the bound store holds
\* an open connection.
C19_SingleAccessExceptBuildConnection ==
    /\ NoTwoHandlesOnAFile
    /\ ReadsAfterClosedWrites
    /\ Len(handles) <= 1
    /\ Len(connections) \in 1..2
    /\ store_connection \in Range(connections)
    /\ Len(connections) = 2 => connections = <<BuildConnection, LoopConnection>>
    /\ LoopConnection \in Range(connections) /\ store_connection = BuildConnection
         => Len(connections) = 2
    /\ pc = "sampling" => connections = <<BuildConnection>>

\* the RAGChecker cell reads legalbench_rag_ragchecker.json after both
\* files were written and the checkpoint reloaded, with the connection of
\* the build cell still open beside the one of the loop cell
C19_Witness ==
    /\ handles = <<[file |-> RagcheckerJson, mode |-> "r"]>>
    /\ Len(accesses) = 7
    /\ Len(connections) = 2
    /\ store_connection = LoopConnection

----------------------------------------------------------------------------
(* Claims about a failed or repeated index build *)

\* the chunks the current execution of the loop has sent and stored
ChunksStored == Min(batch_i, Len(legalbench_rag_chunks))

\* the table holds the rows it held when the loop began, then one row per
\* chunk of the batches sent since, in chunk order
C21_RowsOfBatchesSent ==
    /\ Len(vector_index) = run_start + ChunksStored
    /\ \A k \in 1..ChunksStored :
         vector_index[run_start + k].text = legalbench_rag_chunks[k].page_content
    /\ error = "add_texts" => pc = "aborted" /\ batch_i < Len(legalbench_rag_chunks)

\* after a failed upsert no batch is sent and no row written; the cell run
\* again keeps the rows and starts from the first chunk
C21_Step ==
    /\ error = "add_texts" => vector_index' = vector_index /\ upserts' = upserts
    /\ pc # "build" /\ pc' = "build" =>
         /\ batch_i' = 0
         /\ vector_index' = vector_index
         /\ run_start' = Len(vector_index)

----------------------------------------------------------------------------
(* Claims about the checkpoint step on the list in memory *)

\* the keys of the dictionary `result`
ResultFields ==
    {"query_id", "query", "ground_truth_answer", "generated_answer", "retrieved_chunks"}

\* the cells after the checkpoint cell
AfterCheckpoint == pc \in {"reload", "formatter", "ragchecker_checkpoint", "done"}

\* the checkpoint cell leaves `results` as it is
C27_Step == pc = "checkpoint" => results' = results

\* after the checkpoint cell every record has the fields of `result`, in the
\* order of the loop, and its chunks are the Document objects the search of
\* its iteration returned, with their metadata
C27_RecordsKept ==
    AfterCheckpoint =>
        /\ Len(results) = Len(legalbench_rag_subset)
        /\ Len(serializable_results) = Len(results)
        /\ \A k \in 1..Len(results) :
             /\ DOMAIN results[k] = ResultFields
             /\ results[k].query_id = legalbench_rag_subset[k].query_id
             /\ results[k].retrieved_chunks = exchanges[2 * k - 1].value
             /\ \A j \in 1..Len(results[k].retrieved_chunks) :
                  /\ results[k].retrieved_chunks[j] \in StoreDocs
                  /\ DOMAIN results[k].retrieved_chunks[j] = {"page_content", "metadata"}
                  /\ DOMAIN serializable_results[k].retrieved_chunks[j] = {"page_content"}

\* C27: building the serializable checkpoint leaves `results` unchanged:
\* the list has the same length and order, every record the same fields and
\* the retrieved Document objects, not the {page_content} dictionaries of
\* the copy.
C27_ResultsUnchangedByCheckpoint == [][C27_Step]_vars /\ [](C27_RecordsKept)

\* the checkpoint of two records with chunks has been built and written
C27_Witness ==
    /\ pc = "reload"
    /\ results_file # <<>>
    /\ Len(results) = SampleSize
    /\ \A k \in 1..Len(results) :
         /\ results[k].retrieved_chunks # <<>>
         /\ serializable_results[k].retrieved_chunks # results[k].retrieved_chunks
    /\ results[1].retrieved_chunks # results[2].retrieved_chunks

====
